---- MODULE Spec2Model ----
(***************************************************************************)
(* Model of MemoryIndexManager (src/src/memory/manager.ts): the process-   *)
(* wide instance cache, the coalesced sync, the shutdown sequence, the     *)
(* readFile path checks, search and the probes.                            *)
(*                                                                         *)
(* Spec          lifecycle of the managers: get / sync / close             *)
(* SpecReadFile  readFile applied to bounded paths and file-system states  *)
(* SpecQuery     search applied to bounded queries, index and overlay rows *)
(* SpecTriggers  one open manager: warmSession, search, sync, its passes   *)
(* SpecLive      one manager from its first sync to close, fair .finally   *)
(* SpecBatch     the failure counter of the embedding batch pipeline       *)
(* SpecEmbed     search with a provider, repeated after a zero embedding   *)
(* SpecCandidates the candidate pool size over a wide range of inputs      *)
(* SpecProbe     probeVectorAvailability and probeEmbeddingAvailability    *)
(* SpecDirty     one manager, its Change Tracker and passes that can fail  *)
(*               for single units                                          *)
(* SpecShutdown  one manager: every caller of sync(), and close()          *)
(* SpecParams    one manager: sync() calls with force and progress         *)
(* SpecOverlay   search under fixed settings, for the overlay merge        *)
(***************************************************************************)
EXTENDS Naturals, Integers, Sequences, FiniteSets, TLC

\* ---------------------------------------------------------------- bounds
\* calls made on the API in one run: get(), sync(), close(), search(),
\* warmSession() and timer fires
MaxCalls == 3

Managers == 1..MaxCalls
Passes == 1..MaxCalls
GetCalls == 1..MaxCalls
SyncCalls == 1..MaxCalls
CloseCalls == 1..MaxCalls
SearchCalls == 1..MaxCalls
WarmCalls == 1..MaxCalls

\* the sessionKey argument as passed, and what sessionKey?.trim() || "" makes
\* of it ("" also stands for a key that is left out)
RawSessionKeys == {"", " s1 ", "s2"}
SessionKeys == {"", "s1", "s2"}

\* the one (agentId, workspaceDir, settings) key of the model
Keys == {"k1"}
TimerNames == {"watch", "session", "interval"}

\* embedding batches issued in one run
MaxBatches == 3
Batches == 1..MaxBatches

VARIABLES
  calls,         \* number of API calls and timer fires made so far
  INDEX_CACHE,   \* key -> manager id, 0 when the key has no entry
  getPc,         \* get() call -> "idle" | "awaitProvider" | "done"
  getResult,     \* get() call -> 0 (none yet) | manager id | -1 (rejected)
  constructed,   \* manager -> the constructor has run
  cacheKey,      \* manager -> its cacheKey field
  closed,        \* manager -> its closed field
  syncing,       \* manager -> id of the pass whose promise is held, 0 = null
  passState,     \* pass -> "none" | "running" | "ok" | "err" (runSync settled,
                 \*   .finally not yet run) | "doneOk" | "doneErr"
  passMgr,       \* pass -> manager whose runSync it is, 0 = none
  windowPasses,  \* manager -> passes started since syncing was last null
  syncScope,     \* manager -> the dirty units its pass read, those marked
                 \* since, and those whose processing failed
  db,            \* manager -> "none" | "open" | "closed"
  watcher,       \* manager -> watcher field is non-null
  timers,        \* manager -> set of armed timers
  syncPc,        \* sync() caller -> "idle" | "waiting" | "resolved" | "rejected"
  syncPass,      \* sync() caller -> pass whose promise it was handed, 0 = none
  closePc,       \* close() call -> "idle" | "awaitWatcher" | "awaitSync" | "done"
  closeMgr,      \* close() call -> manager, 0 = none
  pendingSync,   \* close() call -> its pendingSync local (pass id, 0 = null)
  closeResult,   \* close() call -> "none" | "resolved" | "noop" | "rejectedWatcher" | "rejectedSync"
  shutdownLog,   \* manager -> sequence of shutdown steps executed on it
  dirty,         \* manager -> its dirty field
  sessionsDirty, \* manager -> its sessionsDirty field
  passReason,    \* pass -> params.reason of the sync() call that started it
  syncParams,    \* sync() caller -> the force and progress of its params
  passParams,    \* pass -> the force and progress runSync was called with
  logWarn,       \* the warnings logged by the .catch handlers: <<reason, pass>>
  \* --- the opportunistic triggers: warmSession() and search()
  syncSettings,  \* settings.sync: onSessionStart, onSearch
  sessionWarm,   \* manager -> its sessionWarm set
  warmSyncs,     \* manager -> key -> sync() calls made by warmSession for the key
  searchPc,      \* search() call -> "idle" | "awaitLookups" | "done"
  searchMgr,     \* search() call -> manager, 0 = none
  searchTrig,    \* search() call -> what lines 374-379 did in the call
  searchResult,  \* search() call -> "none" | "resolved" | "rejected", and
                 \*   whether a pass it had triggered was running when it returned
  warmPc,        \* warmSession() call -> "idle" | "done"
  warmMgr,       \* warmSession() call -> manager, 0 = none
  warmTrig,      \* warmSession() call -> what the call did
  \* --- readFile: one manager's fields, the file system, one call
  workspaceDir,  \* the workspaceDir field: an absolute path (its segments)
  extraPaths,    \* settings.extraPaths, each with what fs.lstat reports for it
  hmemStore,     \* OPENCLAW.hmem: "absent" | "empty" | "hasNode"
  readPc,        \* "ready" | "returned"
  readReq,       \* params.relPath of the call
  readFileState, \* the target on disk: "regular" | "missing" | "vanishes" | "unreadable"
  readResult,    \* what the call returned or threw
  readSite,      \* source line of the return or throw that ended the call
  \* --- search: one manager's fields, the stores, one call's computation
  provider,      \* the provider field is non-null
  fts,           \* the fts field: "off" | "unavailable" | "ready"
  querySettings, \* settings.query: minScore, maxResults and the hybrid settings
  hmemRows,      \* OPENCLAW.hmem: file "absent" | "corrupt" | "open", and the rows of memories
  queryPc,       \* "ready" | "returned"
  queryReq,      \* the query string and the options of the call
  queryIndex,    \* what the keyword and vector lookups of the call answered
  queryResult,   \* what the call returned or threw
  queryPool,     \* the pool size the call asks its lookups for (lines 387-390)
  queryBefore,   \* the manager's fields when the call began, and whether the
                 \* call before it had a query vector of zeros
  \* --- the embedding batch pipeline of one manager
  batchFailureCount, \* the batchFailureCount field
  pipeline,          \* where batches go: "primary" | "fallback" | "keywordOnly"
  fallbackConfigured,\* settings.fallback names a second provider
  batchPc,           \* batch -> "idle" | "inFlight" | "failed" | "done" | "switched"
  \* --- the two probes of one manager
  vectorField,   \* the vector field: enabled, available, loadError, dims
  vectorReady,   \* the vectorReady field holds a promise
  providerUnavailableReason, \* the field of that name, "" when undefined
  probePc,       \* "idle" | "vector" | "embedding" | "done"
  probeResult,   \* what the probe resolved to, or that it rejected
  probeCalls,    \* the inherited operations the probe has called
  probeCallEnd,  \* how the embedding call of the probe ended
  probeBefore    \* the fields status() reports, as they were when the probe began

trigVars == <<syncSettings, sessionWarm, warmSyncs, searchPc, searchMgr, searchTrig,
              searchResult, warmPc, warmMgr, warmTrig>>

lifeVars == <<calls, INDEX_CACHE, getPc, getResult, constructed, cacheKey, closed,
              syncing, passState, passMgr, windowPasses, syncScope, db, watcher, timers,
              syncPc, syncPass, closePc, closeMgr, pendingSync,
              closeResult, shutdownLog, dirty, sessionsDirty, passReason, logWarn,
              syncParams, passParams, trigVars>>

readVars == <<workspaceDir, extraPaths, hmemStore, readPc, readReq,
              readFileState, readResult, readSite>>

queryVars == <<provider, fts, querySettings, hmemRows, queryPc, queryReq,
               queryIndex, queryResult, queryPool, queryBefore>>

batchVars == <<batchFailureCount, pipeline, fallbackConfigured, batchPc>>

probeVars == <<vectorField, vectorReady, providerUnavailableReason, probePc, probeResult,
               probeCalls, probeCallEnd, probeBefore>>

vars == <<lifeVars, readVars, queryVars, batchVars, probeVars>>

\* ------------------------------------------------------------------ Init
NoPath == [pad |-> FALSE, abs |-> FALSE, segs |-> <<>>]
NoResult == [kind |-> "none", msg |-> "", text |-> "", path |-> <<>>]

\* an option of a call: left out, or given with a value
Absent == [given |-> FALSE, value |-> 0]
Given(v) == [given |-> TRUE, value |-> v]

NoRequest == [query |-> [pad |-> FALSE, words |-> <<>>], minScore |-> Absent,
              maxResults |-> Absent]
NoIndex == [keyword |-> <<>>, vector |-> [c \in {"c1", "c2"} |-> 0], zeroVec |-> FALSE]
NoScope == [read |-> {}, marked |-> {}, failed |-> {}]
\* params without force and without a progress callback; a callback is
\* named by the caller that supplied it, 0 = none
NoParams == [force |-> FALSE, progress |-> 0]
NoAnswer == [kind |-> "none", rows |-> <<>>, site |-> "none"]
NoFields == [provider |-> FALSE, fts |-> "off", batchFailureCount |-> 0,
             pipeline |-> "primary", afterZero |-> FALSE]

\* no readFile call is made in the lifecycle specification
ReadIdle ==
  /\ workspaceDir = <<"ws">>
  /\ extraPaths = {}
  /\ hmemStore = "absent"
  /\ readPc = "ready"
  /\ readReq = NoPath
  /\ readFileState = "regular"
  /\ readResult = NoResult
  /\ readSite = "none"

\* no warmSession() or search() call has been made
NoSearchTrig == [warmFired |-> FALSE, warmPass |-> 0, sawDirty |-> FALSE,
                 sawSessionsDirty |-> FALSE, searchFired |-> FALSE, searchPass |-> 0]
NoWarmTrig == [warmFired |-> FALSE, warmPass |-> 0, result |-> "none"]
NoSearchResult == [kind |-> "none", passRunning |-> FALSE]

TriggersIdle ==
  /\ sessionWarm = [m \in Managers |-> {}]
  /\ warmSyncs = [m \in Managers |-> [k \in SessionKeys |-> 0]]
  /\ searchPc = [s \in SearchCalls |-> "idle"]
  /\ searchMgr = [s \in SearchCalls |-> 0]
  /\ searchTrig = [s \in SearchCalls |-> NoSearchTrig]
  /\ searchResult = [s \in SearchCalls |-> NoSearchResult]
  /\ warmPc = [c \in WarmCalls |-> "idle"]
  /\ warmMgr = [c \in WarmCalls |-> 0]
  /\ warmTrig = [c \in WarmCalls |-> NoWarmTrig]

LifeInit ==
  /\ calls = 0
  /\ INDEX_CACHE = [k \in Keys |-> 0]
  /\ getPc = [g \in GetCalls |-> "idle"]
  /\ getResult = [g \in GetCalls |-> 0]
  /\ constructed = [m \in Managers |-> FALSE]
  /\ cacheKey = [m \in Managers |-> "k1"]
  /\ closed = [m \in Managers |-> FALSE]
  /\ syncing = [m \in Managers |-> 0]
  /\ passState = [p \in Passes |-> "none"]
  /\ passMgr = [p \in Passes |-> 0]
  /\ windowPasses = [m \in Managers |-> 0]
  /\ syncScope = [m \in Managers |-> NoScope]
  /\ db = [m \in Managers |-> "none"]
  /\ watcher = [m \in Managers |-> FALSE]
  /\ timers = [m \in Managers |-> {}]
  /\ syncPc = [c \in SyncCalls |-> "idle"]
  /\ syncPass = [c \in SyncCalls |-> 0]
  /\ closePc = [c \in CloseCalls |-> "idle"]
  /\ closeMgr = [c \in CloseCalls |-> 0]
  /\ pendingSync = [c \in CloseCalls |-> 0]
  /\ closeResult = [c \in CloseCalls |-> "none"]
  /\ shutdownLog = [m \in Managers |-> <<>>]
  /\ dirty = [m \in Managers |-> FALSE]
  /\ sessionsDirty = [m \in Managers |-> FALSE]
  /\ passReason = [p \in Passes |-> "none"]
  /\ syncParams = [c \in SyncCalls |-> NoParams]
  /\ passParams = [p \in Passes |-> NoParams]
  /\ logWarn = {}
  /\ syncSettings = [onSessionStart |-> TRUE, onSearch |-> TRUE]
  /\ TriggersIdle

\* no search is made in the lifecycle specification
QueryIdle ==
  /\ provider = TRUE
  /\ fts = "ready"
  /\ querySettings = [minScore |-> 3, maxResults |-> 4, candidateMultiplier |-> 4,
                       vectorWeight |-> 1, textWeight |-> 1, temporalDecay |-> FALSE]
  /\ hmemRows = [file |-> "absent", rows |-> <<>>]
  /\ queryPc = "ready"
  /\ queryReq = NoRequest
  /\ queryIndex = NoIndex
  /\ queryResult = NoAnswer
  /\ queryPool = 0
  /\ queryBefore = NoFields

\* no batch has been issued: the counter is 0 (line 224) and batches go to the
\* primary provider
BatchIdle ==
  /\ batchFailureCount = 0
  /\ pipeline = "primary"
  /\ fallbackConfigured = FALSE
  /\ batchPc = [b \in Batches |-> "idle"]

\* no probe has been called; the vector field is as the constructor leaves
\* it (lines 333-337), with no dimensions read from the meta row
NoProbeResult == [kind |-> "none", ok |-> FALSE, error |-> ""]
NoCallEnd == [threw |-> FALSE, isError |-> FALSE, text |-> "none"]
NoStatus == [provider |-> FALSE, fts |-> "off", vector |-> <<>>,
             batchFailureCount |-> 0, pipeline |-> "primary"]

ProbeIdle ==
  /\ vectorField = [enabled |-> TRUE, available |-> "null", loadError |-> "", dims |-> 0]
  /\ vectorReady = FALSE
  /\ providerUnavailableReason = ""
  /\ probePc = "idle"
  /\ probeResult = NoProbeResult
  /\ probeCalls = {}
  /\ probeCallEnd = NoCallEnd
  /\ probeBefore = NoStatus

Init == LifeInit /\ ReadIdle /\ QueryIdle /\ BatchIdle /\ ProbeIdle

\* one more call is within the bound of the run
Call ==
  /\ calls < MaxCalls
  /\ calls' = calls + 1

\* ------------------------------------------------ MemoryIndexManager.get
getVarsUnchanged ==
  UNCHANGED <<readVars, queryVars, batchVars, probeVars, trigVars, closed, syncing,
              passState, passMgr,
              windowPasses, syncScope, syncPc, syncPass, closePc, closeMgr, pendingSync,
              closeResult, shutdownLog, sessionsDirty, passReason, logWarn,
              syncParams, passParams>>

\* lines 273-277: the lookup before the await
GetStart(g, k) ==
  /\ getPc[g] = "idle"
  /\ \A h \in GetCalls : h < g => getPc[h] # "idle"
  /\ Call
  /\ IF INDEX_CACHE[k] # 0
       THEN /\ getPc' = [getPc EXCEPT ![g] = "done"]
            /\ getResult' = [getResult EXCEPT ![g] = INDEX_CACHE[k]]
       ELSE /\ getPc' = [getPc EXCEPT ![g] = "awaitProvider"]
            /\ UNCHANGED getResult
  /\ UNCHANGED <<INDEX_CACHE, constructed, cacheKey, db, watcher, timers, dirty>>
  /\ getVarsUnchanged

\* line 346 for the one configuration of the model: the sources include
\* "memory" and the purpose is not "status"
DirtyAfterConstruction == TRUE

\* lines 287-297 and the constructor, 300-348: after createEmbeddingProvider
\* resolved, a manager is constructed (it opens the store and arms the
\* interval timer) and registered without looking at the cache again.
GetFinish(g, k, w) ==
  /\ getPc[g] = "awaitProvider"
  /\ UNCHANGED calls
  /\ \E m \in Managers :
       /\ ~constructed[m]
       /\ \A n \in Managers : n < m => constructed[n]
       /\ constructed' = [constructed EXCEPT ![m] = TRUE]
       /\ cacheKey' = [cacheKey EXCEPT ![m] = k]
       /\ db' = [db EXCEPT ![m] = "open"]
       /\ watcher' = [watcher EXCEPT ![m] = w]
       /\ timers' = [timers EXCEPT ![m] = {"interval"}]
       /\ dirty' = [dirty EXCEPT ![m] = DirtyAfterConstruction]
       /\ INDEX_CACHE' = [INDEX_CACHE EXCEPT ![k] = m]
       /\ getPc' = [getPc EXCEPT ![g] = "done"]
       /\ getResult' = [getResult EXCEPT ![g] = m]
  /\ getVarsUnchanged

\* line 278: createEmbeddingProvider rejects, get() rejects
GetFail(g) ==
  /\ getPc[g] = "awaitProvider"
  /\ UNCHANGED calls
  /\ getPc' = [getPc EXCEPT ![g] = "done"]
  /\ getResult' = [getResult EXCEPT ![g] = -1]
  /\ UNCHANGED <<INDEX_CACHE, constructed, cacheKey, db, watcher, timers, dirty>>
  /\ getVarsUnchanged

\* ----------------------------------------------- MemoryIndexManager.sync
NextPass == 1 + Cardinality({p \in Passes : passState[p] # "none"})

\* mutant: sync() does not look at the closed flag
SyncReturnsEarly_Never(m) == FALSE

\* lines 568-570: a closed manager returns at once
SyncReturnsEarly(m) == closed[m]

\* mutant: the in-flight promise is never reused
JoinsInFlight_Never(m) == FALSE

\* lines 571-573: a caller arriving while a promise is held is handed it
JoinsInFlight(m) == syncing[m] # 0

\* lines 574-577: the promise handed to the caller (0 = already resolved)
PromiseOfSync(m) ==
  IF SyncReturnsEarly(m) THEN 0
  ELSE IF JoinsInFlight(m) THEN syncing[m]
  ELSE NextPass

\* the units of dirty state: the memory files (the dirty field) and the
\* session files (the sessionsDirty field)
Units == {"memory", "sessions"}

DirtyUnits(m) == {u \in Units : IF u = "memory" THEN dirty[m] ELSE sessionsDirty[m]}

\* runSync, step 1: the scope of a pass is the units that are dirty when it
\* starts
ScopeRead(m) == [read |-> DirtyUnits(m), marked |-> {}, failed |-> {}]

\* lines 568-577: effect of one sync() invocation on the manager
SyncEffect(m) ==
  IF SyncReturnsEarly(m) \/ JoinsInFlight(m)
    THEN UNCHANGED <<syncing, passState, passMgr, windowPasses, syncScope>>
    ELSE /\ syncing' = [syncing EXCEPT ![m] = NextPass]
         /\ passState' = [passState EXCEPT ![NextPass] = "running"]
         /\ passMgr' = [passMgr EXCEPT ![NextPass] = m]
         /\ windowPasses' = [windowPasses EXCEPT ![m] = @ + 1]
         /\ syncScope' = [syncScope EXCEPT ![m] = ScopeRead(m)]

\* what no sync() call touches
syncOutside ==
  UNCHANGED <<readVars, queryVars, batchVars, probeVars, INDEX_CACHE, getPc, getResult,
              constructed,
              cacheKey, closed, db, watcher, closePc, closeMgr, pendingSync,
              closeResult, shutdownLog>>

\* the calls of the class itself pass neither force nor progress (lines 358
\* and 376), and so does the explicit call below
syncFrame == syncOutside /\ UNCHANGED <<syncParams, passParams>>

syncVarsUnchanged == syncFrame /\ UNCHANGED trigVars

\* lines 568-574: the call gets past both early returns and calls runSync
StartsPass(m) == ~SyncReturnsEarly(m) /\ ~JoinsInFlight(m)

\* line 574: runSync(params) is handed the reason of the call that starts it
ReasonEffect(m, reason) ==
  passReason' = IF StartsPass(m) THEN [passReason EXCEPT ![NextPass] = reason]
                ELSE passReason

\* an explicit sync() call by caller c on manager m
Sync(c, m) ==
  /\ syncPc[c] = "idle"
  /\ \A d \in SyncCalls : d < c => syncPc[d] # "idle"
  /\ Call
  /\ constructed[m]
  /\ SyncEffect(m)
  /\ syncPass' = [syncPass EXCEPT ![c] = PromiseOfSync(m)]
  /\ syncPc' = [syncPc EXCEPT ![c] = IF PromiseOfSync(m) = 0 THEN "resolved" ELSE "waiting"]
  /\ ReasonEffect(m, "explicit")
  /\ UNCHANGED <<timers, dirty, sessionsDirty, logWarn>>
  /\ syncVarsUnchanged

\* the params an explicit caller can pass: force or not, its own progress
\* callback or none
ParamsOf(c) == [force : BOOLEAN, progress : {0, c}]

\* runSync, step 1: with force the scope is every source, dirty or not
ScopeOf(m, params) ==
  IF params.force THEN [ScopeRead(m) EXCEPT !.read = Units] ELSE ScopeRead(m)

\* mutant: the params of a joining call are merged into the running pass
JoinedParams_Merged(held, params) ==
  [force |-> held.force \/ params.force,
   progress |-> IF held.progress = 0 THEN params.progress ELSE held.progress]

\* lines 571-573: a joining call returns the held promise; its params go
\* nowhere, the pass keeps the params it was started with
JoinedParams(held, params) == held

\* lines 568-577 for a call with params: line 574 hands them to runSync
\* when the call starts the pass
ParamsEffect(m, params) ==
  IF StartsPass(m)
    THEN /\ syncing' = [syncing EXCEPT ![m] = NextPass]
         /\ passState' = [passState EXCEPT ![NextPass] = "running"]
         /\ passMgr' = [passMgr EXCEPT ![NextPass] = m]
         /\ windowPasses' = [windowPasses EXCEPT ![m] = @ + 1]
         /\ passParams' = [passParams EXCEPT ![NextPass] = params]
         /\ syncScope' = [syncScope EXCEPT ![m] = ScopeOf(m, params)]
    ELSE /\ UNCHANGED <<syncing, passState, passMgr, windowPasses>>
         /\ passParams' = IF SyncReturnsEarly(m) THEN passParams
                          ELSE [passParams EXCEPT ![syncing[m]] = JoinedParams(@, params)]
         \* the scope of a pass is that of the params it holds
         /\ syncScope' = IF SyncReturnsEarly(m) \/ ~passParams'[syncing[m]].force
                           THEN syncScope
                         ELSE [syncScope EXCEPT ![m].read = Units]

\* an explicit sync({reason, force, progress}) call by caller c on manager m
SyncWith(c, m, params) ==
  /\ syncPc[c] = "idle"
  /\ \A d \in SyncCalls : d < c => syncPc[d] # "idle"
  /\ Call
  /\ constructed[m]
  /\ syncParams' = [syncParams EXCEPT ![c] = params]
  /\ ParamsEffect(m, params)
  /\ syncPass' = [syncPass EXCEPT ![c] = PromiseOfSync(m)]
  /\ syncPc' = [syncPc EXCEPT ![c] = IF PromiseOfSync(m) = 0 THEN "resolved" ELSE "waiting"]
  /\ ReasonEffect(m, "explicit")
  /\ UNCHANGED <<timers, dirty, sessionsDirty, logWarn, trigVars>>
  /\ syncOutside

\* mutant: a unit whose processing failed counts as processed
Processed_DespiteFailure(scope, failed) == scope.read

\* runSync, step 5: the units of the scope that were processed with success
Processed(scope, failed) == scope.read \ failed

\* mutant: a mark that arrived after the scope was read is forgotten
MarkedSince_Forgotten(scope, u) == FALSE

\* a unit was marked dirty after the pass read its scope
MarkedSince(scope, u) == u \in scope.marked

\* runSync, step 5: the dirty bits a pass clears on success: those of the
\* units it processed, but not of a unit marked again since it read them
ClearedBy(scope, failed) == {u \in Processed(scope, failed) : ~MarkedSince(scope, u)}

\* runSync settles (resolve or reject); the .finally callback is queued.
\* A pass that ends well has cleared the dirty flags.
RunSyncSettle(p, ok, failed) ==
  /\ passState[p] = "running"
  /\ failed \subseteq syncScope[passMgr[p]].read
  /\ ok \/ failed = {}
  /\ UNCHANGED calls
  /\ passState' = [passState EXCEPT ![p] = IF ok THEN "ok" ELSE "err"]
  /\ LET cleared == IF ok THEN ClearedBy(syncScope[passMgr[p]], failed) ELSE {} IN
       /\ dirty' = [dirty EXCEPT ![passMgr[p]] = @ /\ "memory" \notin cleared]
       /\ sessionsDirty' = [sessionsDirty EXCEPT ![passMgr[p]] = @ /\ "sessions" \notin cleared]
  /\ syncScope' = [syncScope EXCEPT ![passMgr[p]].failed = failed]
  /\ UNCHANGED <<syncing, passMgr, windowPasses, syncPc, syncPass, timers,
                 passReason, logWarn>>
  /\ syncVarsUnchanged

\* mutant: the .finally callback leaves the handle in place
HandleAfterSettle_Kept(handle) == handle

\* line 575: this.syncing = null
HandleAfterSettle(handle) == 0

\* mutant: the promise of an opportunistic sync() call has no .catch handler
CatchesSyncError_Never(reason) == FALSE

\* lines 358-360 and 376-378: .catch((err) => log.warn(...)) on the promise
\* sync() returned
CatchesSyncError(reason) == reason \in {"session-start", "search"}

\* the .catch handlers attached to the promise of pass p
SessionStartCaught(p) ==
  \/ \E s \in SearchCalls : searchTrig[s].warmFired /\ searchTrig[s].warmPass = p
  \/ \E c \in WarmCalls : warmTrig[c].warmFired /\ warmTrig[c].warmPass = p

SearchCaught(p) ==
  \E s \in SearchCalls : searchTrig[s].searchFired /\ searchTrig[s].searchPass = p

\* lines 359 and 377: what the handlers log when the promise rejects
Warnings(p) ==
  {w \in {<<"session-start", p>>, <<"search", p>>} :
     /\ CatchesSyncError(w[1])
     /\ \/ w[1] = "session-start" /\ SessionStartCaught(p)
        \/ w[1] = "search" /\ SearchCaught(p)}

\* lines 574-576: the .finally callback clears the handle, then the promise
\* handed to the callers settles with runSync's outcome and, when it
\* rejects, the .catch handlers attached to it run
RunSyncFinally(p) ==
  /\ passState[p] \in {"ok", "err"}
  /\ UNCHANGED calls
  /\ passState' = [passState EXCEPT ![p] = IF @ = "ok" THEN "doneOk" ELSE "doneErr"]
  /\ syncing' = [syncing EXCEPT ![passMgr[p]] = HandleAfterSettle(@)]
  /\ windowPasses' = [windowPasses EXCEPT ![passMgr[p]] =
                        IF HandleAfterSettle(syncing[passMgr[p]]) = 0 THEN 0 ELSE @]
  /\ logWarn' = IF passState[p] = "err" THEN logWarn \cup Warnings(p) ELSE logWarn
  /\ syncScope' = [syncScope EXCEPT ![passMgr[p]] = NoScope]
  /\ UNCHANGED <<passMgr, syncPc, syncPass, timers, dirty, sessionsDirty, passReason>>
  /\ syncVarsUnchanged

\* mutant: sync() swallows the error of the pass
CallerOutcome_Swallowed(p) == "resolved"

\* lines 572 and 577: the caller is handed this.syncing itself, so its await
\* ends as the promise ends
CallerOutcome(p) == IF passState[p] = "doneOk" THEN "resolved" ELSE "rejected"

\* a caller's await of the promise it was handed returns
SyncResume(c) ==
  /\ syncPc[c] = "waiting"
  /\ UNCHANGED calls
  /\ passState[syncPass[c]] \in {"doneOk", "doneErr"}
  /\ syncPc' = [syncPc EXCEPT ![c] = CallerOutcome(syncPass[c])]
  /\ UNCHANGED <<syncing, passState, passMgr, windowPasses, syncScope, syncPass, timers,
                 dirty, sessionsDirty, passReason, logWarn>>
  /\ syncVarsUnchanged

\* a watch or session change event marks the manager dirty and arms the
\* matching debounce timer
UnitOf(t) == IF t = "watch" THEN "memory" ELSE "sessions"

ChangeEvent(m, t) ==
  /\ constructed[m] /\ ~closed[m]
  /\ UNCHANGED calls
  /\ t \in {"watch", "session"}
  /\ t = "watch" => watcher[m]
  /\ t \notin timers[m]
  /\ timers' = [timers EXCEPT ![m] = @ \cup {t}]
  /\ dirty' = IF t = "watch" THEN [dirty EXCEPT ![m] = TRUE] ELSE dirty
  /\ sessionsDirty' = IF t = "session" THEN [sessionsDirty EXCEPT ![m] = TRUE]
                      ELSE sessionsDirty
  /\ syncScope' = IF syncing[m] = 0 THEN syncScope
                  ELSE [syncScope EXCEPT ![m].marked = @ \cup {UnitOf(t)}]
  /\ UNCHANGED <<syncing, passState, passMgr, windowPasses, syncPc, syncPass,
                 passReason, logWarn>>
  /\ syncVarsUnchanged

\* a timer fires and calls sync() without awaiting it; the debounce timers
\* are one-shot, the interval timer stays armed
TimerFire(m, t) ==
  /\ t \in timers[m]
  /\ Call
  /\ constructed[m]
  /\ timers' = [timers EXCEPT ![m] = IF t = "interval" THEN @ ELSE @ \ {t}]
  /\ SyncEffect(m)
  /\ ReasonEffect(m, t)
  /\ UNCHANGED <<syncPc, syncPass, dirty, sessionsDirty, logWarn>>
  /\ syncVarsUnchanged

\* ---------------------------------------------- MemoryIndexManager.close
\* mutant: close() does not look at the closed flag
CloseReturnsEarly_Never(m) == FALSE

\* lines 795-797: a second close() returns at once
CloseReturnsEarly(m) == closed[m]

\* mutant: close() does not wait for the captured promise
AwaitsPendingSync_Never(p) == FALSE

\* line 820: the captured promise is awaited when there is one
AwaitsPendingSync(p) == p # 0

\* mutant: the await is not wrapped in try/catch
AwaitPendingSyncThrows_Uncaught(outcome) == outcome = "doneErr"

\* lines 821-823: try { await pendingSync } catch {} never throws
AwaitPendingSyncThrows(outcome) == FALSE

\* line 813: close() suspends on the watcher when there is one
AwaitsWatcher(m) == watcher[m]

closeVarsUnchanged ==
  UNCHANGED <<readVars, queryVars, batchVars, probeVars, trigVars, getPc, getResult,
              constructed, cacheKey,
              syncing, passState, passMgr, windowPasses, syncScope, syncPc, syncPass, dirty,
              sessionsDirty, passReason, logWarn, syncParams, passParams>>

\* lines 825-826: db.close() and INDEX_CACHE.delete(cacheKey)
CloseStore(c, m, log) ==
  /\ db' = [db EXCEPT ![m] = "closed"]
  /\ INDEX_CACHE' = [INDEX_CACHE EXCEPT ![cacheKey[m]] = 0]
  /\ shutdownLog' = [shutdownLog EXCEPT ![m] = log \o <<"store", "cache">>]
  /\ closePc' = [closePc EXCEPT ![c] = "done"]
  /\ closeResult' = [closeResult EXCEPT ![c] = "resolved"]

\* lines 816-824 reached with no await pending: unsubscribe, then either
\* suspend on the captured sync or go on to close the store
CloseAfterWatcher(c, m, pend, log) ==
  IF AwaitsPendingSync(pend)
    THEN /\ closePc' = [closePc EXCEPT ![c] = "awaitSync"]
         /\ shutdownLog' = [shutdownLog EXCEPT ![m] = log]
         /\ UNCHANGED <<db, INDEX_CACHE, closeResult>>
    ELSE CloseStore(c, m, log)

\* lines 794-815: from the call to the first await
Close(c, m) ==
  /\ closePc[c] = "idle"
  /\ \A d \in CloseCalls : d < c => closePc[d] # "idle"
  /\ Call
  /\ constructed[m]
  /\ closeMgr' = [closeMgr EXCEPT ![c] = m]
  /\ IF CloseReturnsEarly(m)
       THEN /\ closePc' = [closePc EXCEPT ![c] = "done"]
            /\ closeResult' = [closeResult EXCEPT ![c] = "noop"]
            /\ UNCHANGED <<closed, pendingSync, timers, watcher, db,
                           INDEX_CACHE, shutdownLog>>
       ELSE /\ closed' = [closed EXCEPT ![m] = TRUE]
            /\ pendingSync' = [pendingSync EXCEPT ![c] = syncing[m]]
            /\ timers' = [timers EXCEPT ![m] = {}]
            /\ UNCHANGED watcher
            /\ IF AwaitsWatcher(m)
                 THEN /\ closePc' = [closePc EXCEPT ![c] = "awaitWatcher"]
                      /\ shutdownLog' = [shutdownLog EXCEPT ![m] = @ \o <<"timers">>]
                      /\ UNCHANGED <<db, INDEX_CACHE, closeResult>>
                 ELSE CloseAfterWatcher(c, m, syncing[m], shutdownLog[m] \o <<"timers">>)
  /\ closeVarsUnchanged

\* lines 813-819: watcher.close() settles; when it rejects, close() rejects
CloseWatcherDone(c, ok) ==
  /\ closePc[c] = "awaitWatcher"
  /\ UNCHANGED calls
  /\ LET m == closeMgr[c] IN
       IF ok
         THEN /\ watcher' = [watcher EXCEPT ![m] = FALSE]
              /\ CloseAfterWatcher(c, m, pendingSync[c], shutdownLog[m] \o <<"watcher">>)
         ELSE /\ closePc' = [closePc EXCEPT ![c] = "done"]
              /\ closeResult' = [closeResult EXCEPT ![c] = "rejectedWatcher"]
              /\ UNCHANGED <<watcher, db, INDEX_CACHE, shutdownLog>>
  /\ UNCHANGED <<closed, closeMgr, pendingSync, timers>>
  /\ closeVarsUnchanged

\* lines 820-826: the captured promise has settled
CloseSyncDone(c) ==
  /\ closePc[c] = "awaitSync"
  /\ UNCHANGED calls
  /\ LET m == closeMgr[c]
         o == passState[pendingSync[c]] IN
       /\ o \in {"doneOk", "doneErr"}
       /\ IF AwaitPendingSyncThrows(o)
            THEN /\ closePc' = [closePc EXCEPT ![c] = "done"]
                 /\ closeResult' = [closeResult EXCEPT ![c] = "rejectedSync"]
                 /\ UNCHANGED <<db, INDEX_CACHE, shutdownLog>>
            ELSE CloseStore(c, m, shutdownLog[m] \o <<"sync">>)
  /\ UNCHANGED <<closed, closeMgr, pendingSync, timers, watcher>>
  /\ closeVarsUnchanged

Next ==
  \/ \E g \in GetCalls, k \in Keys : GetStart(g, k)
  \/ \E g \in GetCalls, k \in Keys, w \in BOOLEAN : GetFinish(g, k, w)
  \/ \E g \in GetCalls : GetFail(g)
  \/ \E c \in SyncCalls, m \in Managers : Sync(c, m)
  \/ \E p \in Passes, ok \in BOOLEAN : RunSyncSettle(p, ok, {})
  \/ \E p \in Passes : RunSyncFinally(p)
  \/ \E c \in SyncCalls : SyncResume(c)
  \/ \E m \in Managers, t \in TimerNames : ChangeEvent(m, t)
  \/ \E m \in Managers, t \in TimerNames : TimerFire(m, t)
  \/ \E c \in CloseCalls, m \in Managers : Close(c, m)
  \/ \E c \in CloseCalls, ok \in BOOLEAN : CloseWatcherDone(c, ok)
  \/ \E c \in CloseCalls : CloseSyncDone(c)

Spec == Init /\ [][Next]_vars

\* ------------------------------------------ MemoryIndexManager.readFile
\* A path is a sequence of segments; a raw path adds whether it starts with
\* the separator (abs) and whether it is wrapped in white space (pad).
MaxSegs == 3
Segments == {"..", "memory", "MEMORY.md", "b.txt", "etc", "ws", "O0030"}
MdSegments == {"MEMORY.md", "memory.md"}
NodeIdSegments == {"O0030"}

\* every sequence of at most n segments
SeqsUpTo(n) == UNION {[1..k -> Segments] : k \in 0..n}

RawPaths ==
  {[pad |-> FALSE, abs |-> a, segs |-> q] : a \in BOOLEAN, q \in SeqsUpTo(MaxSegs)}
    \cup {[pad |-> TRUE, abs |-> FALSE, segs |-> q] : q \in SeqsUpTo(1)}

Workspaces == {<<>>, <<"ws">>, <<"etc", "ws">>}

\* settings.extraPaths with the answer of fs.lstat for each entry
ExtraConfigs ==
  { {},
    {[raw |-> [pad |-> FALSE, abs |-> TRUE, segs |-> <<"etc">>], kind |-> "dir"]},
    {[raw |-> [pad |-> FALSE, abs |-> TRUE, segs |-> <<"etc">>], kind |-> "symlink"]},
    {[raw |-> [pad |-> FALSE, abs |-> FALSE, segs |-> <<"..", "etc">>], kind |-> "dir"]},
    {[raw |-> [pad |-> FALSE, abs |-> TRUE, segs |-> <<"etc", "MEMORY.md">>], kind |-> "file"]},
    {[raw |-> [pad |-> FALSE, abs |-> TRUE, segs |-> <<"etc", "MEMORY.md">>], kind |-> "missing"]},
    {[raw |-> [pad |-> FALSE, abs |-> TRUE, segs |-> <<"etc", "b.txt">>], kind |-> "file"]} }

HmemStores == {"absent", "empty", "hasNode"}
FileStates == {"regular", "missing", "vanishes", "unreadable"}

\* String.prototype.trim (line 585)
Trim(raw) == [raw EXCEPT !.pad = FALSE]

\* the trimmed string is empty (line 586)
IsEmptyPath(raw) == ~raw.pad /\ ~raw.abs /\ raw.segs = <<>>

\* path.resolve: "." is dropped, ".." removes the segment before it and
\* stops at the root
RECURSIVE Normalize(_, _)
Normalize(acc, segs) ==
  IF segs = <<>> THEN acc
  ELSE LET h == Head(segs) IN
       Normalize(IF h = ".." THEN (IF acc = <<>> THEN acc ELSE SubSeq(acc, 1, Len(acc) - 1))
                 ELSE IF h = "." THEN acc
                 ELSE Append(acc, h),
                 Tail(segs))

\* lines 594-596: path.isAbsolute(rawPath) ? resolve(rawPath) : resolve(workspaceDir, rawPath)
PathResolve(base, raw) ==
  IF raw.abs THEN Normalize(<<>>, raw.segs) ELSE Normalize(base, raw.segs)

RECURSIVE CommonLen(_, _)
CommonLen(a, b) ==
  IF a = <<>> \/ b = <<>> \/ Head(a) # Head(b) THEN 0
  ELSE 1 + CommonLen(Tail(a), Tail(b))

RECURSIVE Ups(_)
Ups(n) == IF n = 0 THEN <<>> ELSE <<"..">> \o Ups(n - 1)

\* path.relative(from, to) (line 597): one ".." for each segment of from
\* below the common prefix, then the rest of to
PathRelative(from, to) ==
  LET k == CommonLen(from, to) IN
  Ups(Len(from) - k) \o SubSeq(to, k + 1, Len(to))

\* mutant: the ".." test of line 599 is missing
InWorkspace_NoDotDot(relPath) == Len(relPath) > 0

\* lines 598-599; path.relative returns no absolute path on POSIX
InWorkspace(relPath) == Len(relPath) > 0 /\ Head(relPath) # ".."

\* internal.ts normalizeRelPath: leading "." and "/" characters are removed
RECURSIVE StripLeadingDots(_)
StripLeadingDots(relPath) ==
  IF relPath # <<>> /\ Head(relPath) \in {"..", "."}
    THEN StripLeadingDots(Tail(relPath))
    ELSE relPath

\* internal.ts isMemoryPath: MEMORY.md, memory.md or anything below memory/
IsMemoryPath(relPath) ==
  LET n == StripLeadingDots(relPath) IN
  \/ n = <<"MEMORY.md">>
  \/ n = <<"memory.md">>
  \/ (Len(n) >= 2 /\ Head(n) = "memory")

\* String.prototype.endsWith(".md") on a resolved path
EndsWithMd(absPath) == absPath # <<>> /\ absPath[Len(absPath)] \in MdSegments

\* mutant: the extension test of line 632 is missing
HasIndexableExtension_Any(absPath) == TRUE

\* line 632
HasIndexableExtension(absPath) == EndsWithMd(absPath)

\* absPath === additionalPath || absPath.startsWith(additionalPath + sep)
IsPrefix(a, b) == Len(a) <= Len(b) /\ SubSeq(b, 1, Len(a)) = a

\* internal.ts normalizeExtraMemoryPaths: every entry resolved against the
\* workspace, with the answer of fs.lstat kept beside it
NormalizedExtraPaths(ws, extras) ==
  {[path |-> PathResolve(ws, Trim(e.raw)), kind |-> e.kind] : e \in extras}

\* lines 601-628
AllowedAdditional(ws, extras, absPath, allowedWorkspace) ==
  /\ ~allowedWorkspace
  /\ extras # {}
  /\ \E e \in NormalizedExtraPaths(ws, extras) :
       \/ e.kind = "dir" /\ IsPrefix(e.path, absPath)
       \/ e.kind = "file" /\ absPath = e.path /\ EndsWithMd(absPath)

\* mutant: every relPath of one segment is looked up in the overlay store
IsNodeId_AnySegment(raw) == ~raw.abs /\ Len(raw.segs) = 1

\* line 590: /^[A-Z]\d{4}(\.\d+)*$/
IsNodeId(raw) == ~raw.abs /\ Len(raw.segs) = 1 /\ raw.segs[1] \in NodeIdSegments

\* lines 138-200: a node is returned only when the overlay store holds it
ReadHmemNodeFinds(hmem, raw) == hmem = "hasNode"

\* the messages of the three throws
EmptyPathError == "path required"
NotAllowedError == "path required"
ExtensionError_Specific == "unsupported file type"
ExtensionError == "path required"

Thrown(msg) == [kind |-> "error", msg |-> msg, text |-> "", path |-> <<>>]
Returned(text, path) == [kind |-> "ok", msg |-> "", text |-> text, path |-> path]

\* fs-utils statRegularFile: { missing: true } for a target that is not there
StatReportsMissing(file) == file = "missing"

\* fs.readFile fails: the target went away after the stat, or cannot be read
ReadFails(file) == file \in {"vanishes", "unreadable"}

\* fs-utils isFileMissingError: the failure is ENOENT
IsFileMissingError(file) == file = "vanishes"

\* mutant: a read that fails is always rethrown
ReadFailed_Rethrown(file, relPath) ==
  IF ReadFails(file)
    THEN [site |-> "646", result |-> Thrown(IF IsFileMissingError(file) THEN "ENOENT" ELSE "EIO")]
  ELSE [site |-> "649", result |-> Returned("content", relPath)]

\* lines 639-655: fs.readFile and the handling of its failure
ReadContent(file, relPath) ==
  IF ReadFails(file) /\ IsFileMissingError(file)
    THEN [site |-> "644", result |-> Returned("", relPath)]
  ELSE IF ReadFails(file)
    THEN [site |-> "646", result |-> Thrown("EIO")]
  ELSE [site |-> "649", result |-> Returned("content", relPath)]

\* lines 580-656: site is the line of the return or throw that ends the call
ReadFileOutcome(ws, extras, hmem, raw, file) ==
  LET rawPath == Trim(raw)
      absPath == PathResolve(ws, rawPath)
      relPath == PathRelative(ws, absPath)
      allowedWorkspace == InWorkspace(relPath) /\ IsMemoryPath(relPath)
      allowedAdditional == AllowedAdditional(ws, extras, absPath, allowedWorkspace)
  IN
  IF IsEmptyPath(rawPath)
    THEN [site |-> "587", result |-> Thrown(EmptyPathError)]
  ELSE IF IsNodeId(rawPath) /\ ReadHmemNodeFinds(hmem, rawPath)
    THEN [site |-> "592", result |-> Returned("node", <<"hmem:">> \o rawPath.segs)]
  ELSE IF ~allowedWorkspace /\ ~allowedAdditional
    THEN [site |-> "630", result |-> Thrown(NotAllowedError)]
  ELSE IF ~HasIndexableExtension(absPath)
    THEN [site |-> "633", result |-> Thrown(ExtensionError)]
  ELSE IF StatReportsMissing(file)
    THEN [site |-> "637", result |-> Returned("", relPath)]
  ELSE ReadContent(file, relPath)

InitReadFile ==
  /\ LifeInit
  /\ QueryIdle
  /\ BatchIdle
  /\ ProbeIdle
  /\ workspaceDir \in Workspaces
  /\ extraPaths \in ExtraConfigs
  /\ hmemStore \in HmemStores
  /\ readPc = "ready"
  /\ readReq = NoPath
  /\ readFileState = "regular"
  /\ readResult = NoResult
  /\ readSite = "none"

\* one readFile call on a path and a state of its target drawn from the
\* bounded sets; the state of the target matters only to a call that gets
\* as far as statRegularFile
ReadFile ==
  /\ readPc = "ready"
  /\ \E raw \in RawPaths, file \in FileStates :
       LET out == ReadFileOutcome(workspaceDir, extraPaths, hmemStore, raw, file) IN
         /\ file = "regular" \/ out.site \in {"637", "644", "646", "649"}
         /\ readResult' = out.result
         /\ readSite' = out.site
         /\ readReq' = raw
         /\ readFileState' = file
  /\ readPc' = "returned"
  /\ UNCHANGED <<workspaceDir, extraPaths, hmemStore>>
  /\ UNCHANGED <<lifeVars, queryVars, batchVars, probeVars>>

NextReadFile == ReadFile

SpecReadFile == InitReadFile /\ [][NextReadFile]_vars

\* -------------------------------------------- MemoryIndexManager.search
\* Scores are counted in eighths (8 stands for 1.0) and maxResults in halves
\* (3 stands for 1.5): the options are numbers, not only integers.
MaxHmemRows == 2

ChunkIds == {"c1", "c2"}
ChunkOrder == <<"c1", "c2">>
KeywordScores == {0, 2, 6}
VectorScores == {0, 6, 8}
ShortWords == {"to"}

Queries ==
  { [pad |-> FALSE, words |-> <<>>],
    [pad |-> TRUE, words |-> <<>>],
    [pad |-> FALSE, words |-> <<"alpha">>],
    [pad |-> TRUE, words |-> <<"alpha", "beta">>],
    [pad |-> FALSE, words |-> <<"to">>] }

MinScoreOptions == {Absent, Given(6)}
MaxResultsOptions == {Absent} \cup {Given(v) : v \in {0, 2, 3}}

QuerySettings ==
  { [minScore |-> 3, maxResults |-> 4, candidateMultiplier |-> cm,
     vectorWeight |-> w[1], textWeight |-> w[2], temporalDecay |-> td] :
      cm \in {1, 4}, w \in {<<1, 1>>, <<2, 0>>, <<0, 2>>}, td \in BOOLEAN }

\* rows of the memories table: the keywords its title and its level_1 hold
HmemRowKinds ==
  { [title |-> {"alpha"}, level_1 |-> {}, obsolete |-> FALSE],
    [title |-> {}, level_1 |-> {"alpha"}, obsolete |-> FALSE],
    [title |-> {"alpha"}, level_1 |-> {"alpha"}, obsolete |-> TRUE] }

\* prefix || printf('%04d', seq): the id of the i-th row
HmemIds == <<"h1", "h2", "h3", "h4">>

HmemTables == UNION {[1..k -> HmemRowKinds] : k \in 0..MaxHmemRows}
HmemFiles ==
  {[file |-> f, rows |-> <<>>] : f \in {"absent", "corrupt"}}
    \cup {[file |-> "open", rows |-> t] : t \in HmemTables}

Min(a, b) == IF a <= b THEN a ELSE b
Max(a, b) == IF a >= b THEN a ELSE b

\* Array.prototype.slice(0, n) for n >= 0 counted in halves: n is truncated
SliceTo(rows, n2) == SubSeq(rows, 1, Min(n2 \div 2, Len(rows)))

\* Array.prototype.toSorted((a, b) => b.score - a.score): stable, descending
RECURSIVE InsertDesc(_, _)
InsertDesc(sorted, x) ==
  IF sorted = <<>> THEN <<x>>
  ELSE IF Head(sorted).score >= x.score
    THEN <<Head(sorted)>> \o InsertDesc(Tail(sorted), x)
  ELSE <<x>> \o sorted

RECURSIVE SortDesc(_)
SortDesc(rows) ==
  IF rows = <<>> THEN <<>>
  ELSE InsertDesc(SortDesc(SubSeq(rows, 1, Len(rows) - 1)), rows[Len(rows)])

\* lines 79-83: the words of the query longer than two characters
HmemKeywords(words) == SelectSeq(words, LAMBDA w : w \notin ShortWords)

\* lines 104-113: 2 for each keyword in the title, 1 for each in level_1
HmemHits(row, keywords) ==
  2 * Cardinality({i \in DOMAIN keywords : keywords[i] \in row.title})
    + Cardinality({i \in DOMAIN keywords : keywords[i] \in row.level_1})

\* line 124: Math.min(score / (keywords.length * 2), 1)
HmemScore(hits, keywords) == Min((hits * 8) \div (Len(keywords) * 2), 8)

\* mutant: the WHERE clause does not look at the obsolete column
HmemRowMatches_Obsolete(row, keywords) ==
  \E i \in DOMAIN keywords : keywords[i] \in row.title \cup row.level_1

\* lines 86-95: the WHERE clause of the SELECT on memories
HmemRowMatches(row, keywords) ==
  /\ ~row.obsolete
  /\ \E i \in DOMAIN keywords : keywords[i] \in row.title \cup row.level_1

\* lines 71-132: maxResults is counted in halves
SearchHmem(hmem, words, maxResults2) ==
  LET keywords == HmemKeywords(words) IN
  IF hmem.file # "open" \/ keywords = <<>> THEN <<>>
  ELSE
    LET all == [i \in DOMAIN hmem.rows |-> [id |-> HmemIds[i], row |-> hmem.rows[i]]]
        matched == SelectSeq(all, LAMBDA r : HmemRowMatches(r.row, keywords))
        rows == SubSeq(matched, 1, Min(maxResults2, Len(matched)))
        scored == [i \in DOMAIN rows |->
                     [id |-> rows[i].id, score |-> HmemHits(rows[i].row, keywords)]]
        kept == SliceTo(SortDesc(SelectSeq(scored, LAMBDA r : r.score > 0)), maxResults2)
    IN [i \in DOMAIN kept |->
          [id |-> kept[i].id, score |-> HmemScore(kept[i].score, keywords),
           origin |-> "hmem"]]

\* mutant: overlay results are appended without looking at the count
HmemSlotFree_Always(combined, maxResults2) == TRUE

\* line 472, negated: combined.length >= maxResults ends the loop
HmemSlotFree(combined, maxResults2) == 2 * Len(combined) < maxResults2

\* lines 470-474: overlay results are pushed while a slot is free
RECURSIVE PushWhileFree(_, _, _)
PushWhileFree(combined, hmemResults, maxResults2) ==
  IF hmemResults = <<>> \/ ~HmemSlotFree(combined, maxResults2) THEN combined
  ELSE PushWhileFree(Append(combined, Head(hmemResults)), Tail(hmemResults), maxResults2)

\* lines 461-476
MergeWithHmem(normalResults, hmem, words, maxResults2) ==
  LET hmemSlots2 == Max(6, maxResults2 - 2 * Len(normalResults))
      hmemResults == SearchHmem(hmem, words, hmemSlots2)
  IN IF hmemResults = <<>> THEN normalResults
     ELSE PushWhileFree(normalResults, hmemResults, maxResults2)

\* mutant: the pool has no upper limit
Candidates_Uncapped(maxResults2, candidateMultiplier) ==
  Max(1, (maxResults2 * candidateMultiplier) \div 2)

\* lines 387-390: Math.min(200, Math.max(1, Math.floor(maxResults * multiplier)))
Candidates(maxResults2, candidateMultiplier) ==
  Min(200, Max(1, (maxResults2 * candidateMultiplier) \div 2))

\* the rows a lookup answers: the chunks that match, best score first, at
\* most limit of them
LookupRows(scoreOf, limit) ==
  LET all == [i \in DOMAIN ChunkOrder |->
                [id |-> ChunkOrder[i], score |-> scoreOf[ChunkOrder[i]], origin |-> "index"]]
      hit == SortDesc(SelectSeq(all, LAMBDA r : r.score > 0))
  IN SubSeq(hit, 1, Min(limit, Len(hit)))

\* lines 504-526, with the .catch(() => []) of its callers
SearchKeywordRows(ftsState, index, term, limit) ==
  IF ftsState # "ready" \/ term \notin DOMAIN index.keyword THEN <<>>
  ELSE LookupRows(index.keyword[term], limit)

\* mutant: a query vector of zeros is searched like any other
HasVector_Always(index) == TRUE

\* line 434: queryVec.some((v) => v !== 0)
HasVector(index) == ~index.zeroVec

\* lines 435-437: no vector search for a query vector of zeros
SearchVectorRows(index, limit) ==
  IF HasVector(index) THEN LookupRows(index.vector, limit) ELSE <<>>

\* internal.ts extractKeywords: the words of the query that are not very short
ExtractKeywords(words) == SelectSeq(words, LAMBDA w : w \notin ShortWords)

\* lines 402-403: the strings looked up in keyword-only mode
SearchTerms(words) ==
  LET keywords == ExtractKeywords(words) IN
  IF keywords # <<>> THEN [i \in DOMAIN keywords |-> <<keywords[i]>>] ELSE <<words>>

\* mutant: the entry seen first is kept
ReplacesSeen_Never(result, existing) == FALSE

\* line 414: result.score > existing.score
ReplacesSeen(result, existing) == result.score > existing.score

\* lines 411-419: one entry per chunk id, in first-seen order, best score kept
RECURSIVE MergeSeen(_, _)
MergeSeen(seen, results) ==
  IF results = <<>> THEN seen
  ELSE LET r == Head(results)
           at == {i \in DOMAIN seen : seen[i].id = r.id}
       IN MergeSeen(IF at = {} THEN Append(seen, r)
                    ELSE LET i == CHOOSE j \in at : TRUE IN
                         IF ReplacesSeen(r, seen[i]) THEN [seen EXCEPT ![i] = r] ELSE seen,
                    Tail(results))

RECURSIVE Flatten(_)
Flatten(resultSets) ==
  IF resultSets = <<>> THEN <<>> ELSE Head(resultSets) \o Flatten(Tail(resultSets))

\* mutant: the threshold is not applied
PassesMinScore_Any(entry, minScore) == TRUE

\* lines 423, 440, 453: entry.score >= minScore
PassesMinScore(entry, minScore) == entry.score >= minScore

FilterMinScore(rows, minScore) == SelectSeq(rows, LAMBDA e : PassesMinScore(e, minScore))

\* mutant: the two scores are added without their weights
FusedScore_Unweighted(vectorScore, textScore, vectorWeight, textWeight) ==
  Min(vectorScore + textScore, 8)

\* hybrid.ts, fusion: vectorWeight * vectorScore + textWeight * textScore,
\* a missing score counting as 0 (weights in halves)
FusedScore(vectorScore, textScore, vectorWeight, textWeight) ==
  (vectorWeight * vectorScore + textWeight * textScore) \div 2

\* hybrid.ts, temporal decay: 0.5 ^ (age / halfLife) of the file of a chunk,
\* in eighths: c2 is one half-life old, c1 is fresh
ChunkDecay == [c \in ChunkIds |-> IF c = "c2" THEN 4 ELSE 8]

Decayed(score, c, temporalDecay) ==
  IF temporalDecay THEN (score * ChunkDecay[c]) \div 8 ELSE score

\* hybrid.ts mergeHybridResults: one entry per chunk of either list with
\* its fused score, decayed when temporal decay is on, best first
MergeHybridResults(vector, keyword, vectorWeight, textWeight, temporalDecay) ==
  LET ids == SelectSeq(ChunkOrder, LAMBDA c :
               \/ \E i \in DOMAIN vector : vector[i].id = c
               \/ \E i \in DOMAIN keyword : keyword[i].id = c)
      ScoreIn(rows, c) ==
        IF \E i \in DOMAIN rows : rows[i].id = c
          THEN rows[CHOOSE i \in DOMAIN rows : rows[i].id = c].score ELSE 0
  IN SortDesc([i \in DOMAIN ids |->
       [id |-> ids[i],
        score |-> Decayed(FusedScore(ScoreIn(vector, ids[i]), ScoreIn(keyword, ids[i]),
                                     vectorWeight, textWeight), ids[i], temporalDecay),
        origin |-> "index"]])

\* String.prototype.trim on the query (line 380)
Cleaned(query) == query.words

\* lines 384-385: the option of the call, or the configured default
EffectiveMinScore(settings, req) ==
  IF req.minScore.given THEN req.minScore.value ELSE settings.minScore

EffectiveMaxResults(settings, req) ==
  IF req.maxResults.given THEN req.maxResults.value ELSE settings.maxResults

\* line 394: !this.fts.enabled || !this.fts.available
FtsUnusable(ftsState) == ftsState # "ready"

\* lines 331, 386: hybrid.enabled is what fts.enabled was set from
HybridEnabled(ftsState) == ftsState # "off"

Answer(rows, site) == [kind |-> "ok", rows |-> rows, site |-> site]

\* mutant: no query counts as empty
EmptyQuery_Never(cleaned) == FALSE

\* line 381: !cleaned
EmptyQuery(cleaned) == cleaned = <<>>

\* lines 380-455 of search(): site is the line of the return that ends the call
SearchOutcome(prov, ftsState, settings, hmem, req, index) ==
  LET cleaned == Cleaned(req.query)
      minScore == EffectiveMinScore(settings, req)
      maxResults2 == EffectiveMaxResults(settings, req)
      candidates == Candidates(maxResults2, settings.candidateMultiplier)
  IN
  IF EmptyQuery(cleaned) THEN Answer(<<>>, "382")
  ELSE IF ~prov THEN
    IF FtsUnusable(ftsState)
      THEN Answer(MergeWithHmem(<<>>, hmem, cleaned, maxResults2), "397")
    ELSE
      LET searchTerms == SearchTerms(cleaned)
          resultSets == [i \in DOMAIN searchTerms |->
                           SearchKeywordRows(ftsState, index, searchTerms[i], candidates)]
          merged == SliceTo(FilterMinScore(SortDesc(MergeSeen(<<>>, Flatten(resultSets))),
                                           minScore), maxResults2)
      IN Answer(MergeWithHmem(merged, hmem, cleaned, maxResults2), "426")
  ELSE
    LET keywordResults == IF HybridEnabled(ftsState)
                            THEN SearchKeywordRows(ftsState, index, cleaned, candidates)
                            ELSE <<>>
        vectorResults == SearchVectorRows(index, candidates)
    IN
    IF ~HybridEnabled(ftsState)
      THEN Answer(MergeWithHmem(SliceTo(FilterMinScore(vectorResults, minScore), maxResults2),
                                hmem, cleaned, maxResults2), "441")
    ELSE
      LET merged == MergeHybridResults(vectorResults, keywordResults,
                                       settings.vectorWeight, settings.textWeight,
                                       settings.temporalDecay)
      IN Answer(MergeWithHmem(SliceTo(FilterMinScore(merged, minScore), maxResults2),
                              hmem, cleaned, maxResults2), "454")

\* the strings search() hands to the keyword lookup, and whether it embeds
\* the query
KeywordLookups(prov, ftsState, query) ==
  IF Cleaned(query) = <<>> \/ FtsUnusable(ftsState) THEN {}
  ELSE IF ~prov THEN {SearchTerms(Cleaned(query))[i] : i \in DOMAIN SearchTerms(Cleaned(query))}
  ELSE {Cleaned(query)}

EmbedsQuery(prov, query) == prov /\ Cleaned(query) # <<>>

\* what the vector table would answer to a query vector of zeros, were it
\* asked
ZeroVectorAnswers == { [c \in ChunkIds |-> 0], [c \in ChunkIds |-> 8] }

\* what the lookups of one call can answer; a lookup the call does not make
\* answers nothing; embedQueryWithTimeout gives a vector of zeros when the
\* embedding fails or times out
IndexAnswers(prov, ftsState, query) ==
  { [keyword |-> k, vector |-> v.scores, zeroVec |-> v.zero] :
      k \in [KeywordLookups(prov, ftsState, query) -> [ChunkIds -> KeywordScores]],
      v \in IF EmbedsQuery(prov, query)
              THEN {[scores |-> f, zero |-> FALSE] : f \in [ChunkIds -> VectorScores]}
                     \cup {[scores |-> f, zero |-> TRUE] : f \in ZeroVectorAnswers}
              ELSE {[scores |-> [c \in ChunkIds |-> 0], zero |-> FALSE]} }

InitQuery ==
  /\ LifeInit
  /\ ReadIdle
  /\ BatchIdle
  /\ ProbeIdle
  /\ provider \in BOOLEAN
  /\ fts \in {"off", "unavailable", "ready"}
  /\ querySettings \in QuerySettings
  /\ (HybridEnabled(fts) /\ provider)
       \/ (querySettings.vectorWeight = 1 /\ ~querySettings.temporalDecay)
  /\ hmemRows \in HmemFiles
  /\ queryPc = "ready"
  /\ queryReq = NoRequest
  /\ queryIndex = NoIndex
  /\ queryResult = NoAnswer
  /\ queryPool = 0
  /\ queryBefore = NoFields

\* the fields of the manager that outlive a call
FieldsNow(afterZero) ==
  [provider |-> provider, fts |-> fts, batchFailureCount |-> batchFailureCount,
   pipeline |-> pipeline, afterZero |-> afterZero]

\* one search() call, from line 380 on, with the answers of its lookups
SearchCall ==
  /\ queryPc = "ready"
  /\ \E q \in Queries, ms \in MinScoreOptions, mr \in MaxResultsOptions :
       \E index \in IndexAnswers(provider, fts, q) :
         LET req == [query |-> q, minScore |-> ms, maxResults |-> mr] IN
           /\ queryReq' = req
           /\ queryIndex' = index
           /\ queryResult' = SearchOutcome(provider, fts, querySettings, hmemRows, req, index)
  /\ queryPool' = Candidates(EffectiveMaxResults(querySettings, queryReq'),
                               querySettings.candidateMultiplier)
  /\ queryBefore' = FieldsNow(FALSE)
  /\ queryPc' = "returned"
  /\ UNCHANGED <<provider, fts, querySettings, hmemRows>>
  /\ UNCHANGED <<lifeVars, readVars, batchVars, probeVars>>

\* the same search() again after a call whose query embedding was zero:
\* the keyword index answers as before, the embedding is made anew
SearchRetry ==
  /\ queryPc = "returned"
  /\ queryIndex.zeroVec
  /\ \E index \in {a \in IndexAnswers(provider, fts, queryReq.query) :
                     a.keyword = queryIndex.keyword} :
       /\ queryIndex' = index
       /\ queryResult' = SearchOutcome(provider, fts, querySettings, hmemRows, queryReq, index)
  /\ queryBefore' = FieldsNow(TRUE)
  /\ UNCHANGED <<queryPc, queryReq, queryPool, provider, fts, querySettings, hmemRows>>
  /\ UNCHANGED <<lifeVars, readVars, batchVars, probeVars>>

NextQuery == SearchCall

\* lines 384-390 of search() for a wide range of maxResults (in halves) and
\* of candidateMultiplier
MaxResultsInputs == {-4, -1, 0, 1, 2, 3, 20, 99, 100, 101, 400, 401}
Multipliers == {-1, 0, 1, 2, 4, 8}

InitCandidates ==
  /\ LifeInit
  /\ ReadIdle
  /\ BatchIdle
  /\ ProbeIdle
  /\ provider = TRUE
  /\ fts = "ready"
  /\ \E cm \in Multipliers, mr \in MaxResultsInputs :
       querySettings = [minScore |-> 3, maxResults |-> mr, candidateMultiplier |-> cm,
                        vectorWeight |-> 1, textWeight |-> 1, temporalDecay |-> FALSE]
  /\ hmemRows = [file |-> "absent", rows |-> <<>>]
  /\ queryPc = "ready"
  /\ queryReq = NoRequest
  /\ queryIndex = NoIndex
  /\ queryResult = NoAnswer
  /\ queryPool = 0
  /\ queryBefore = NoFields

ComputeCandidates ==
  /\ queryPc = "ready"
  /\ \E mr \in {Absent} \cup {Given(v) : v \in MaxResultsInputs} :
       /\ queryReq' = [queryReq EXCEPT !.maxResults = mr]
       /\ queryPool' = Candidates(EffectiveMaxResults(querySettings, queryReq'),
                                    querySettings.candidateMultiplier)
  /\ queryPc' = "pooled"
  /\ UNCHANGED <<provider, fts, querySettings, hmemRows, queryIndex, queryResult,
                 queryBefore>>
  /\ UNCHANGED <<lifeVars, readVars, batchVars, probeVars>>

NextCandidates == ComputeCandidates

SpecCandidates == InitCandidates /\ [][NextCandidates]_vars

\* a manager with a provider and no overlay file, searched repeatedly
InitEmbed ==
  /\ InitQuery
  /\ provider
  /\ hmemRows = [file |-> "absent", rows |-> <<>>]

NextEmbed == SearchCall \/ SearchRetry

SpecEmbed == InitEmbed /\ [][NextEmbed]_vars

SpecQuery == InitQuery /\ [][NextQuery]_vars

\* ------------------------- MemoryIndexManager.warmSession and the triggers
\* of search(), lines 350-379
TriggerQueries == {[pad |-> TRUE, words |-> <<>>], [pad |-> FALSE, words |-> <<"alpha">>]}

\* line 354: what an absent or blank sessionKey becomes
NoSessionKey == ""

\* line 354: sessionKey?.trim() || ""
TrimKey(rawKey) == IF rawKey = " s1 " THEN "s1" ELSE rawKey

\* mutant: the sessionWarm set is not consulted
AlreadyWarm_Never(m, key) == FALSE

\* line 355: key && this.sessionWarm.has(key)
AlreadyWarm(m, key) == key # NoSessionKey /\ key \in sessionWarm[m]

\* lines 351-358: the call gets as far as this.sync({ reason: "session-start" })
WarmFires(m, key) == syncSettings.onSessionStart /\ ~AlreadyWarm(m, key)

\* mutant: the key is recorded only when the sync() call was not skipped
WarmEffect_OnlyIfOpen(m, key) ==
  /\ sessionWarm' = IF WarmFires(m, key) /\ key # NoSessionKey /\ ~SyncReturnsEarly(m)
                      THEN [sessionWarm EXCEPT ![m] = @ \cup {key}] ELSE sessionWarm
  /\ warmSyncs' = IF WarmFires(m, key)
                    THEN [warmSyncs EXCEPT ![m][key] = @ + 1] ELSE warmSyncs

\* lines 358-363: the sync() call is counted and a non-empty key is added
WarmEffect(m, key) ==
  /\ sessionWarm' = IF WarmFires(m, key) /\ key # NoSessionKey
                      THEN [sessionWarm EXCEPT ![m] = @ \cup {key}] ELSE sessionWarm
  /\ warmSyncs' = IF WarmFires(m, key)
                    THEN [warmSyncs EXCEPT ![m][key] = @ + 1] ELSE warmSyncs

\* mutant: only the file-dirty flag is looked at
FiresSearchSync_FileDirtyOnly(m) == syncSettings.onSearch /\ dirty[m]

\* line 375
FiresSearchSync(m) == syncSettings.onSearch /\ (dirty[m] \/ sessionsDirty[m])

\* line 712: status().dirty
StatusDirty(m) == dirty[m] \/ sessionsDirty[m]

\* the sync() calls of lines 358 and 376, made one after the other with no
\* await between them: the second finds the promise the first left
TriggerEffect(m, warmFires, searchFires) ==
  IF warmFires \/ searchFires
    THEN /\ SyncEffect(m)
         /\ ReasonEffect(m, IF warmFires THEN "session-start" ELSE "search")
    ELSE UNCHANGED <<syncing, passState, passMgr, windowPasses, syncScope, passReason>>

triggerFrame ==
  /\ syncFrame
  /\ UNCHANGED <<timers, syncPc, syncPass, dirty, sessionsDirty, logWarn, syncSettings>>

\* lines 350-364: warmSession() has no await and always resolves
WarmSession(c, m, rawKey) ==
  /\ warmPc[c] = "idle"
  /\ \A d \in WarmCalls : d < c => warmPc[d] # "idle"
  /\ Call
  /\ constructed[m]
  /\ LET key == TrimKey(rawKey) IN
       /\ WarmEffect(m, key)
       /\ TriggerEffect(m, WarmFires(m, key), FALSE)
       /\ warmTrig' = [warmTrig EXCEPT ![c] =
            [warmFired |-> WarmFires(m, key),
             warmPass |-> IF WarmFires(m, key) THEN PromiseOfSync(m) ELSE 0,
             result |-> "resolved"]]
  /\ warmPc' = [warmPc EXCEPT ![c] = "done"]
  /\ warmMgr' = [warmMgr EXCEPT ![c] = m]
  /\ UNCHANGED <<searchPc, searchMgr, searchTrig, searchResult>>
  /\ triggerFrame

\* mutant: search() awaits the sync() calls it makes
AwaitedBySearch_Triggered(s) == {searchTrig[s].warmPass, searchTrig[s].searchPass} \ {0}

\* lines 374-379: both promises are dropped (void), search() waits for none
AwaitedBySearch(s) == {}

\* lines 380-398: an empty query, and a manager with neither provider nor
\* keyword index, return before the first await
SearchSuspends(query) ==
  Cleaned(query) # <<>> /\ ~(~provider /\ FtsUnusable(fts))

\* the passes the sync() calls of this search() started or joined
TriggeredBySearch(trig) == {trig.warmPass, trig.searchPass} \ {0}

\* how search() ends, and whether a pass it triggered is still running then
SearchReturn(s, trig, states) ==
  [kind |-> IF \E p \in AwaitedBySearch(s) : states[p] = "doneErr"
              THEN "rejected" ELSE "resolved",
   passRunning |-> \E p \in TriggeredBySearch(trig) : states[p] = "running"]

\* lines 366-398: search() up to its first await
SearchStart(s, m, rawKey, query) ==
  /\ searchPc[s] = "idle"
  /\ \A d \in SearchCalls : d < s => searchPc[d] # "idle"
  /\ Call
  /\ constructed[m]
  /\ LET key == TrimKey(rawKey)
         trig == [warmFired |-> WarmFires(m, key),
                  warmPass |-> IF WarmFires(m, key) THEN PromiseOfSync(m) ELSE 0,
                  sawDirty |-> dirty[m], sawSessionsDirty |-> sessionsDirty[m],
                  searchFired |-> FiresSearchSync(m),
                  searchPass |-> IF FiresSearchSync(m) THEN PromiseOfSync(m) ELSE 0]
     IN
       /\ WarmEffect(m, key)
       /\ TriggerEffect(m, WarmFires(m, key), FiresSearchSync(m))
       /\ searchTrig' = [searchTrig EXCEPT ![s] = trig]
       /\ searchMgr' = [searchMgr EXCEPT ![s] = m]
       /\ IF SearchSuspends(query)
            THEN /\ searchPc' = [searchPc EXCEPT ![s] = "awaitLookups"]
                 /\ UNCHANGED searchResult
            ELSE /\ searchPc' = [searchPc EXCEPT ![s] = "done"]
                 /\ searchResult' = [searchResult EXCEPT ![s] =
                                       SearchReturn(s, trig, passState')]
  /\ UNCHANGED <<warmPc, warmMgr, warmTrig>>
  /\ triggerFrame

\* lines 406-455: the lookups of the call have answered and search() returns
SearchFinish(s) ==
  /\ searchPc[s] = "awaitLookups"
  /\ \A p \in AwaitedBySearch(s) : passState[p] \in {"doneOk", "doneErr"}
  /\ UNCHANGED calls
  /\ searchPc' = [searchPc EXCEPT ![s] = "done"]
  /\ searchResult' = [searchResult EXCEPT ![s] = SearchReturn(s, searchTrig[s], passState)]
  /\ UNCHANGED <<syncing, passState, passMgr, windowPasses, syncScope, passReason, sessionWarm,
                 warmSyncs, searchMgr, searchTrig, warmPc, warmMgr, warmTrig>>
  /\ triggerFrame

\* the state after one get() call has constructed and returned manager 1:
\* open, registered, dirty (line 346), its watcher and its interval timer
\* running
InitTriggers ==
  /\ ReadIdle
  /\ QueryIdle
  /\ BatchIdle
  /\ ProbeIdle
  /\ TriggersIdle
  /\ calls = 1
  /\ INDEX_CACHE = [k \in Keys |-> 1]
  /\ getPc = [g \in GetCalls |-> IF g = 1 THEN "done" ELSE "idle"]
  /\ getResult = [g \in GetCalls |-> IF g = 1 THEN 1 ELSE 0]
  /\ constructed = [m \in Managers |-> m = 1]
  /\ cacheKey = [m \in Managers |-> "k1"]
  /\ closed = [m \in Managers |-> FALSE]
  /\ syncing = [m \in Managers |-> 0]
  /\ passState = [p \in Passes |-> "none"]
  /\ passMgr = [p \in Passes |-> 0]
  /\ windowPasses = [m \in Managers |-> 0]
  /\ syncScope = [m \in Managers |-> NoScope]
  /\ db = [m \in Managers |-> IF m = 1 THEN "open" ELSE "none"]
  /\ watcher = [m \in Managers |-> m = 1]
  /\ timers = [m \in Managers |-> IF m = 1 THEN {"interval"} ELSE {}]
  /\ syncPc = [c \in SyncCalls |-> "idle"]
  /\ syncPass = [c \in SyncCalls |-> 0]
  /\ closePc = [c \in CloseCalls |-> "idle"]
  /\ closeMgr = [c \in CloseCalls |-> 0]
  /\ pendingSync = [c \in CloseCalls |-> 0]
  /\ closeResult = [c \in CloseCalls |-> "none"]
  /\ shutdownLog = [m \in Managers |-> <<>>]
  /\ dirty = [m \in Managers |-> m = 1 /\ DirtyAfterConstruction]
  /\ sessionsDirty = [m \in Managers |-> FALSE]
  /\ passReason = [p \in Passes |-> "none"]
  /\ syncParams = [c \in SyncCalls |-> NoParams]
  /\ passParams = [p \in Passes |-> NoParams]
  /\ logWarn = {}
  /\ syncSettings \in [onSessionStart : BOOLEAN, onSearch : BOOLEAN]

\* the manager stays open and its memory files stay as they are: the calls,
\* the passes they start and the transcript changes that mark the sessions
\* dirty
NextTriggers ==
  \/ \E c \in WarmCalls, m \in Managers, k \in RawSessionKeys : WarmSession(c, m, k)
  \/ \E s \in SearchCalls, m \in Managers, k \in RawSessionKeys, q \in TriggerQueries :
       SearchStart(s, m, k, q)
  \/ \E s \in SearchCalls : SearchFinish(s)
  \/ \E c \in SyncCalls, m \in Managers : Sync(c, m)
  \/ \E p \in Passes, ok \in BOOLEAN : RunSyncSettle(p, ok, {})
  \/ \E p \in Passes : RunSyncFinally(p)
  \/ \E c \in SyncCalls : SyncResume(c)
  \/ \E m \in Managers : ChangeEvent(m, "session")

SpecTriggers == InitTriggers /\ [][NextTriggers]_vars

\* the manager that get() returned, from its first sync() to its close()
NextManager ==
  \/ \E c \in SyncCalls, m \in Managers : Sync(c, m)
  \/ \E p \in Passes, ok \in BOOLEAN : RunSyncSettle(p, ok, {})
  \/ \E p \in Passes : RunSyncFinally(p)
  \/ \E c \in SyncCalls : SyncResume(c)
  \/ \E m \in Managers, t \in TimerNames : ChangeEvent(m, t)
  \/ \E m \in Managers, t \in TimerNames : TimerFire(m, t)
  \/ \E c \in CloseCalls, m \in Managers : Close(c, m)
  \/ \E c \in CloseCalls, ok \in BOOLEAN : CloseWatcherDone(c, ok)
  \/ \E c \in CloseCalls : CloseSyncDone(c)

\* the .finally callback of line 574 is a queued microtask: the event loop
\* runs it once runSync has settled
SpecLive ==
  InitTriggers /\ [][NextManager]_vars /\ WF_vars(\E p \in Passes : RunSyncFinally(p))

\* ------------------------------------------------------------------------
\* The embedding batch pipeline. The manager holds the counter (line 224)
\* and reports it (lines 748-758); the pipeline that moves it is described
\* by section 4.2 of the specification.

\* line 38
BATCH_FAILURE_LIMIT == 2

\* where batches go once the primary provider is judged unavailable
SwitchedPipeline == IF fallbackConfigured THEN "fallback" ELSE "keywordOnly"

\* mutant: a failure is counted whatever the pipeline has become
CountsFailure_Always(target) == TRUE

\* the counter belongs to the primary provider: a failure recorded after the
\* switch leaves it alone
CountsFailure(target) == target = "primary"

\* the counter after one more persistent failure has been recorded
CountAfterFailure ==
  IF CountsFailure(pipeline) THEN batchFailureCount + 1 ELSE batchFailureCount

\* lines 750-751: status().batch.failures and status().batch.limit
StatusBatchFailures == batchFailureCount
StatusBatchLimit == BATCH_FAILURE_LIMIT

batchFrame == UNCHANGED <<lifeVars, readVars, queryVars, probeVars, fallbackConfigured>>

\* a batch is attempted: it is issued to the primary provider, or it finds
\* the pipeline switched and never reaches the primary
BatchStart(b) ==
  /\ batchPc[b] = "idle"
  /\ \A c \in Batches : c < b => batchPc[c] # "idle"
  /\ batchPc' = [batchPc EXCEPT ![b] = IF pipeline = "primary" THEN "inFlight"
                                        ELSE "switched"]
  /\ UNCHANGED <<batchFailureCount, pipeline>>
  /\ batchFrame

\* a batch in flight has failed for good (its retries are used up): inside
\* the critical section the failure is counted and, when the counter has
\* reached the limit, the pipeline switches for the rest of the lifetime
BatchFail(b) ==
  /\ batchPc[b] = "inFlight"
  /\ batchPc' = [batchPc EXCEPT ![b] = "failed"]
  /\ batchFailureCount' = CountAfterFailure
  /\ pipeline' = IF pipeline = "primary" /\ CountAfterFailure >= BATCH_FAILURE_LIMIT
                   THEN SwitchedPipeline ELSE pipeline
  /\ batchFrame

\* a batch in flight has succeeded; whether a recorded success starts the
\* count again is not laid down, so both outcomes are possible
BatchSucceed(b, reset) ==
  /\ batchPc[b] = "inFlight"
  /\ batchPc' = [batchPc EXCEPT ![b] = "done"]
  /\ batchFailureCount' = IF reset THEN 0 ELSE batchFailureCount
  /\ UNCHANGED pipeline
  /\ batchFrame

InitBatch ==
  /\ LifeInit
  /\ ReadIdle
  /\ QueryIdle
  /\ ProbeIdle
  /\ batchFailureCount = 0
  /\ pipeline = "primary"
  /\ fallbackConfigured \in BOOLEAN
  /\ batchPc = [b \in Batches |-> "idle"]

NextBatch ==
  \/ \E b \in Batches : BatchStart(b)
  \/ \E b \in Batches : BatchFail(b)
  \/ \E b \in Batches, reset \in BOOLEAN : BatchSucceed(b, reset)

SpecBatch == InitBatch /\ [][NextBatch]_vars
\* ---------------------------------------------------------------- probes
\* the fields status() reports that a probe could touch (lines 700-765)
StatusFields ==
  [provider |-> provider, fts |-> fts, vector |-> vectorField,
   batchFailureCount |-> batchFailureCount, pipeline |-> pipeline]

\* the states of the vector field: available is null until a load of the
\* extension has been tried; loadError is set with available = false; dims
\* comes from the meta row (lines 338-341)
VectorStates ==
  { [enabled |-> e, available |-> a, loadError |-> IF a = "false" THEN "load failed" ELSE "",
     dims |-> d] :
      e \in BOOLEAN, a \in {"null", "true", "false"}, d \in {0, 3} }

\* lines 768-773: the probe goes on to ensureVectorReady
ProbeAttempts(prov, vec) == prov /\ vec.enabled

\* mutant: ensureVectorReady records the outcome of the load in the vector field
EnsureVectorReadyEffect_Records(vec, ready) ==
  [vec EXCEPT !.available = IF ready THEN "true" ELSE "false",
              !.loadError = IF ready THEN "" ELSE "load failed"]

\* ensureVectorReady as the probe uses it: it prepares the vector path and
\* leaves the vector field as it was
EnsureVectorReadyEffect(vec, ready) == vec

\* what ensureVectorReady can resolve to: what is known of the extension,
\* or the outcome of a load when nothing is known yet
ReadyOutcomes(vec) ==
  IF vec.available = "null" THEN BOOLEAN ELSE {vec.available = "true"}

\* lines 766-773: probeVectorAvailability up to its return or its await
ProbeVectorStart ==
  /\ probePc = "idle"
  /\ probeBefore' = StatusFields
  /\ IF ProbeAttempts(provider, vectorField)
       THEN /\ probePc' = "vector"
            /\ probeCalls' = probeCalls \cup {"ensureVectorReady"}
            /\ UNCHANGED probeResult
       ELSE /\ probePc' = "done"
            /\ probeResult' = [kind |-> "bool", ok |-> FALSE, error |-> ""]
            /\ UNCHANGED probeCalls
  /\ UNCHANGED <<vectorField, vectorReady, providerUnavailableReason, probeCallEnd>>
  /\ UNCHANGED <<lifeVars, readVars, queryVars, batchVars>>

\* line 774: ensureVectorReady settles and the probe returns its value
ProbeVectorSettle(ready) ==
  /\ probePc = "vector"
  /\ ready \in ReadyOutcomes(vectorField)
  /\ vectorField' = EnsureVectorReadyEffect(vectorField, ready)
  /\ probePc' = "done"
  /\ probeResult' = [kind |-> "bool", ok |-> ready, error |-> ""]
  /\ UNCHANGED <<vectorReady, providerUnavailableReason, probeCalls, probeCallEnd,
                 probeBefore>>
  /\ UNCHANGED <<lifeVars, readVars, queryVars, batchVars>>

\* what embedBatchWithRetry(["ping"]) can end with: success, an Error with
\* a message, or a thrown value that is not an Error
PingOutcomes ==
  { [threw |-> FALSE, isError |-> FALSE, text |-> ""],
    [threw |-> TRUE, isError |-> TRUE, text |-> "timeout"],
    [threw |-> TRUE, isError |-> FALSE, text |-> "429"] }

\* mutant: the probe has no catch
ProbeCatches_Never(outcome) == FALSE

\* lines 785-791: the try block around the call
ProbeCatches(outcome) == outcome.threw

\* lines 777-784: probeEmbeddingAvailability up to its return or its await
ProbeEmbeddingStart ==
  /\ probePc = "idle"
  /\ probeBefore' = StatusFields
  /\ IF ~provider
       THEN /\ probePc' = "done"
            /\ probeResult' =
                 [kind |-> "resolved", ok |-> FALSE,
                  error |-> IF providerUnavailableReason # "" THEN providerUnavailableReason
                            ELSE "No embedding provider available (FTS-only mode)"]
            /\ UNCHANGED probeCalls
       ELSE /\ probePc' = "embedding"
            /\ probeCalls' = probeCalls \cup {"embedBatchWithRetry"}
            /\ UNCHANGED probeResult
  /\ UNCHANGED <<vectorField, vectorReady, providerUnavailableReason, probeCallEnd>>
  /\ UNCHANGED <<lifeVars, readVars, queryVars, batchVars>>

\* lines 785-791: the call settles
ProbeEmbeddingSettle(outcome) ==
  /\ probePc = "embedding"
  /\ probePc' = "done"
  /\ probeCallEnd' = outcome
  /\ probeResult' =
       IF ~outcome.threw THEN [kind |-> "resolved", ok |-> TRUE, error |-> ""]
       ELSE IF ProbeCatches(outcome)
         THEN [kind |-> "resolved", ok |-> FALSE, error |-> outcome.text]
         ELSE [kind |-> "rejected", ok |-> FALSE, error |-> outcome.text]
  /\ UNCHANGED <<vectorField, vectorReady, providerUnavailableReason, probeCalls, probeBefore>>
  /\ UNCHANGED <<lifeVars, readVars, queryVars, batchVars>>

InitProbe ==
  /\ LifeInit
  /\ ReadIdle
  /\ BatchIdle
  /\ provider \in BOOLEAN
  /\ fts = "ready"
  /\ querySettings = [minScore |-> 3, maxResults |-> 4, candidateMultiplier |-> 4,
                       vectorWeight |-> 1, textWeight |-> 1, temporalDecay |-> FALSE]
  /\ hmemRows = [file |-> "absent", rows |-> <<>>]
  /\ queryPc = "ready"
  /\ queryReq = NoRequest
  /\ queryIndex = NoIndex
  /\ queryResult = NoAnswer
  /\ queryPool = 0
  /\ queryBefore = NoFields
  /\ vectorField \in VectorStates
  /\ vectorReady \in BOOLEAN
  /\ vectorField.available # "null" => vectorReady
  /\ providerUnavailableReason \in {"", "no API key"}
  /\ probePc = "idle"
  /\ probeResult = NoProbeResult
  /\ probeCalls = {}
  /\ probeCallEnd = NoCallEnd
  /\ probeBefore = NoStatus

NextProbe ==
  \/ ProbeVectorStart
  \/ \E ready \in BOOLEAN : ProbeVectorSettle(ready)
  \/ ProbeEmbeddingStart
  \/ \E outcome \in PingOutcomes : ProbeEmbeddingSettle(outcome)

SpecProbe == InitProbe /\ [][NextProbe]_vars
\* ------------------------------------------------------- dirty state
\* one open manager, its Change Tracker and its passes; a pass can fail
\* for some of the units of its scope
InitDirty ==
  /\ InitTriggers
  /\ syncSettings = [onSessionStart |-> TRUE, onSearch |-> TRUE]

NextDirty ==
  \/ \E c \in SyncCalls, m \in Managers : Sync(c, m)
  \/ \E p \in Passes, ok \in BOOLEAN, failed \in SUBSET Units : RunSyncSettle(p, ok, failed)
  \/ \E p \in Passes : RunSyncFinally(p)
  \/ \E c \in SyncCalls : SyncResume(c)
  \/ \E m \in Managers, t \in TimerNames : ChangeEvent(m, t)
  \/ \E m \in Managers, t \in TimerNames : TimerFire(m, t)

SpecDirty == InitDirty /\ [][NextDirty]_vars
\* ------------------------------------------------- calls on a closing manager
\* the manager that get() returned, with every caller of sync() the class
\* has (lines 358, 376, 563 and the timers) and its close(); the
\* searches are those that return before their first await
InitShutdown ==
  /\ InitTriggers
  /\ syncSettings = [onSessionStart |-> TRUE, onSearch |-> TRUE]

NextShutdown ==
  \/ \E c \in WarmCalls, m \in Managers, k \in {NoSessionKey, "s2"} : WarmSession(c, m, k)
  \/ \E s \in SearchCalls, m \in Managers : SearchStart(s, m, "s2", [pad |-> TRUE, words |-> <<>>])
  \/ \E c \in SyncCalls, m \in Managers : Sync(c, m)
  \/ \E p \in Passes, ok \in BOOLEAN : RunSyncSettle(p, ok, {})
  \/ \E p \in Passes : RunSyncFinally(p)
  \/ \E c \in SyncCalls : SyncResume(c)
  \/ \E m \in Managers, t \in TimerNames : ChangeEvent(m, t)
  \/ \E m \in Managers, t \in TimerNames : TimerFire(m, t)
  \/ \E c \in CloseCalls, m \in Managers : Close(c, m)
  \/ \E c \in CloseCalls, ok \in BOOLEAN : CloseWatcherDone(c, ok)
  \/ \E c \in CloseCalls : CloseSyncDone(c)

SpecShutdown == InitShutdown /\ [][NextShutdown]_vars
\* ------------------------------------------------- sync() calls with params
\* one open manager: explicit calls with and without force and progress,
\* the timers, and the passes they start or join
NextParams ==
  \/ \E c \in SyncCalls, m \in Managers : \E params \in ParamsOf(c) : SyncWith(c, m, params)
  \/ \E p \in Passes, ok \in BOOLEAN : RunSyncSettle(p, ok, {})
  \/ \E p \in Passes : RunSyncFinally(p)
  \/ \E c \in SyncCalls : SyncResume(c)
  \/ \E m \in Managers, t \in TimerNames : ChangeEvent(m, t)
  \/ \E m \in Managers, t \in TimerNames : TimerFire(m, t)

SpecParams == InitShutdown /\ [][NextParams]_vars
\* ------------------------------------------------- the overlay merge
\* search() in every mode and with every overlay file, under the settings
\* the idle manager has: the weights and the decay of the hybrid merge
\* have no part in mergeWithHmem
InitOverlay ==
  /\ InitQuery
  /\ querySettings = [minScore |-> 3, maxResults |-> 4, candidateMultiplier |-> 4,
                       vectorWeight |-> 1, textWeight |-> 1, temporalDecay |-> FALSE]

SpecOverlay == InitOverlay /\ [][NextQuery]_vars

\* ================================================================ claims
RunningPasses(m) == {p \in Passes : passMgr[p] = m /\ passState[p] = "running"}
Settled(p) == passState[p] \in {"doneOk", "doneErr"}
Count(log, e) == Cardinality({i \in DOMAIN log : log[i] = e})
Registered(m) == INDEX_CACHE[cacheKey[m]] = m

\* C1: while a manager holds an in-flight promise exactly one pass has been
\* started for it, never two passes of one manager run at the same time,
\* every caller still waiting on the manager holds that one promise, and
\* callers handed the same promise end with the same outcome, the pass's.
C1_Coalesced ==
  /\ \A m \in Managers :
       /\ syncing[m] # 0 => windowPasses[m] = 1
       /\ syncing[m] = 0 => windowPasses[m] = 0
       /\ Cardinality(RunningPasses(m)) <= 1
  /\ \A c \in SyncCalls :
       /\ (syncPc[c] = "waiting" /\ ~Settled(syncPass[c]))
            => syncing[passMgr[syncPass[c]]] = syncPass[c]
       /\ (syncPass[c] # 0 /\ syncPc[c] = "resolved") => passState[syncPass[c]] = "doneOk"
       /\ syncPc[c] = "rejected" => passState[syncPass[c]] = "doneErr"
  /\ \A c, d \in SyncCalls :
       (syncPass[c] # 0 /\ syncPass[c] = syncPass[d]
          /\ syncPc[c] # "waiting" /\ syncPc[d] # "waiting")
         => syncPc[c] = syncPc[d]

\* C1 witness: two callers were coalesced on one pass and both rejected
C1_Witness ==
  \E c, d \in SyncCalls :
    /\ c # d
    /\ syncPass[c] # 0 /\ syncPass[c] = syncPass[d]
    /\ syncPc[c] = "rejected" /\ syncPc[d] = "rejected"

\* C2: two managers with the same cache key never both hold an open store.
C2_OneOpenStorePerKey ==
  \A m, n \in Managers :
    (m # n /\ constructed[m] /\ constructed[n] /\ cacheKey[m] = cacheKey[n])
      => ~(db[m] = "open" /\ db[n] = "open")

\* C3: the shutdown steps executed on a manager appear in the order timers,
\* watcher, awaited sync, store, cache, each at most once; the store is
\* closed only after the timers are cleared, the watcher is gone and the
\* captured sync has settled, and never while a pass of the manager runs.
StepRank(e) ==
  CASE e = "timers" -> 1 [] e = "watcher" -> 2 [] e = "sync" -> 3
    [] e = "store" -> 4 [] e = "cache" -> 5

C3_CloseOrder ==
  \A m \in Managers :
    /\ \A i, j \in DOMAIN shutdownLog[m] :
         i < j => StepRank(shutdownLog[m][i]) < StepRank(shutdownLog[m][j])
    /\ db[m] = "closed" =>
         /\ RunningPasses(m) = {}
         /\ timers[m] = {}
         /\ ~watcher[m]
         /\ Count(shutdownLog[m], "timers") = 1
         /\ Count(shutdownLog[m], "store") = 1
         /\ \A c \in CloseCalls :
              (closeMgr[c] = m /\ pendingSync[c] # 0)
                => (Settled(pendingSync[c]) /\ Count(shutdownLog[m], "sync") = 1)
    /\ Count(shutdownLog[m], "cache") = 1 => db[m] = "closed"

\* C3 witness: a close ran all five steps
C3_Witness ==
  \E m \in Managers :
    shutdownLog[m] = <<"timers", "watcher", "sync", "store", "cache">>

\* C4: a close() call that went past the closed check and has returned left
\* the store closed, the manager out of the cache and no timer or watcher.
C4_AllStepsRun ==
  \A c \in CloseCalls :
    (closePc[c] = "done" /\ closeResult[c] # "noop")
      => /\ db[closeMgr[c]] = "closed"
         /\ ~Registered(closeMgr[c])
         /\ timers[closeMgr[c]] = {}
         /\ ~watcher[closeMgr[c]]

\* C5: of two close() calls on one manager at least one is a no-op that
\* returned without error and captured nothing, and no shutdown step runs
\* twice on a manager.
C5_CloseIdempotent ==
  /\ \A c, d \in CloseCalls :
       (c # d /\ closeMgr[c] # 0 /\ closeMgr[c] = closeMgr[d])
         => (closeResult[c] = "noop" \/ closeResult[d] = "noop")
  /\ \A c \in CloseCalls :
       closeResult[c] = "noop" => (closePc[c] = "done" /\ pendingSync[c] = 0)
  /\ \A m \in Managers :
       \A e \in {"timers", "watcher", "sync", "store", "cache"} :
         Count(shutdownLog[m], e) <= 1

\* C5 witness: a second close() returned as a no-op while the first one is
\* still suspended
C5_Witness ==
  \E c, d \in CloseCalls :
    /\ closeMgr[c] = closeMgr[d]
    /\ closeResult[c] = "noop"
    /\ closePc[d] \in {"awaitWatcher", "awaitSync"}

\* C6: no close() call rejects with the error of the sync it captured; a
\* call that captured a pass which rejected, and that got as far as awaiting
\* it, ends resolved with the store closed and the manager deregistered.
C6_SyncErrorSwallowed ==
  \A c \in CloseCalls :
    /\ closeResult[c] # "rejectedSync"
    /\ (closePc[c] = "done" /\ pendingSync[c] # 0
          /\ passState[pendingSync[c]] = "doneErr"
          /\ closeResult[c] # "rejectedWatcher")
         => /\ closeResult[c] = "resolved"
            /\ db[closeMgr[c]] = "closed"
            /\ ~Registered(closeMgr[c])

\* C6 witness: a close() resolved after the pass it had captured rejected
C6_Witness ==
  \E c \in CloseCalls :
    /\ closeResult[c] = "resolved"
    /\ pendingSync[c] # 0
    /\ passState[pendingSync[c]] = "doneErr"
    /\ Count(shutdownLog[closeMgr[c]], "sync") = 1

\* ------------------------------------------------- readFile: the claims
ReadAbsPath == PathResolve(workspaceDir, Trim(readReq))
ReadRelPath == PathRelative(workspaceDir, ReadAbsPath)
OutsideWorkspace == ~IsPrefix(workspaceDir, ReadAbsPath)
OutsideExtraPaths ==
  \A e \in extraPaths : ~IsPrefix(PathResolve(workspaceDir, Trim(e.raw)), ReadAbsPath)
TouchedTarget == readSite \in {"637", "644", "646", "649"}
HmemHit == IsNodeId(Trim(readReq)) /\ hmemStore = "hasNode"

\* the target passes the permission checks: an .md file in the workspace's
\* memory tree, below an extra directory that exists, or an extra file that
\* exists
PermittedTarget ==
  /\ EndsWithMd(ReadAbsPath)
  /\ \/ /\ IsPrefix(workspaceDir, ReadAbsPath)
        /\ Len(ReadAbsPath) > Len(workspaceDir)
        /\ IsMemoryPath(SubSeq(ReadAbsPath, Len(workspaceDir) + 1, Len(ReadAbsPath)))
     \/ \E e \in extraPaths :
          LET root == PathResolve(workspaceDir, Trim(e.raw)) IN
          \/ e.kind = "dir" /\ IsPrefix(root, ReadAbsPath)
          \/ e.kind = "file" /\ root = ReadAbsPath

\* C7: a call whose path resolves outside the workspace root and outside
\* every configured extra path throws, and neither stats nor reads the target.
C7_OutsideRejected ==
  (readPc = "returned" /\ OutsideWorkspace /\ OutsideExtraPaths)
    => (readResult.kind = "error" /\ readSite = "630" /\ ~TouchedTarget)

\* C7 witness: a relative ".." path that leaves the workspace and names an
\* .md file that would count as a memory path was rejected
C7_Witness ==
  /\ readPc = "returned"
  /\ ~readReq.abs /\ readReq.segs # <<>> /\ Head(readReq.segs) = ".."
  /\ OutsideWorkspace /\ OutsideExtraPaths
  /\ EndsWithMd(ReadAbsPath) /\ IsMemoryPath(ReadRelPath)
  /\ readResult.kind = "error"

\* C8 as stated: every call whose resolved path does not end in .md throws.
C8_NonMdRejected ==
  (readPc = "returned" /\ ~EndsWithMd(ReadAbsPath)) => readResult.kind = "error"

\* C8 amended: every call whose resolved path does not end in .md throws
\* without touching the target, unless its relPath is a node id found in the
\* overlay store; what is returned from a file comes from an .md path.
C8_NonMdRejectedUnlessNode ==
  /\ (readPc = "returned" /\ ~EndsWithMd(ReadAbsPath) /\ ~HmemHit)
       => (readResult.kind = "error" /\ ~TouchedTarget)
  /\ (readPc = "returned" /\ readResult.kind = "ok" /\ readSite # "592")
       => EndsWithMd(ReadAbsPath)
  /\ readSite = "592" => HmemHit

\* C8 witness: a path that passed the permission checks was rejected for
\* its extension
C8_Witness ==
  /\ readPc = "returned"
  /\ readSite = "633"
  /\ ~EndsWithMd(ReadAbsPath)
  /\ readResult.kind = "error"

\* C9 as stated: every path-safety rejection carries "path not permitted".
C9_PathNotPermitted ==
  readSite \in {"630", "633"} => readResult = Thrown("path not permitted")

\* C9 amended: every path-safety rejection (outside the roots, not a memory
\* path, wrong extension) is the same error, with the message "path
\* required", so the reason cannot be told from it.
C9_GenericRejection ==
  readSite \in {"630", "633"} => readResult = Thrown("path required")

\* C9 witness: a path inside the workspace was rejected for not being a
\* memory path, with the same error an extension rejection carries
C9_Witness ==
  /\ readSite = "630"
  /\ ~OutsideWorkspace
  /\ EndsWithMd(ReadAbsPath)
  /\ readResult = Thrown(ExtensionError)

QueryWords == Cleaned(queryReq.query)
QueryMinScore == EffectiveMinScore(querySettings, queryReq)
QueryMaxResults == EffectiveMaxResults(querySettings, queryReq)
ResultRows == queryResult.rows
NothingAvailable == ~provider /\ fts # "ready"

\* the overlay row with this id is live and holds a word of the query that
\* is longer than two characters
LiveOverlayMatch(id) ==
  /\ hmemRows.file = "open"
  /\ \E j \in DOMAIN hmemRows.rows :
       /\ HmemIds[j] = id
       /\ ~hmemRows.rows[j].obsolete
       /\ \E i \in DOMAIN QueryWords :
            /\ QueryWords[i] \notin ShortWords
            /\ QueryWords[i] \in hmemRows.rows[j].title \cup hmemRows.rows[j].level_1

\* C11: no result returned by search() has a score below minScore (the
\* option of the call, or the configured default), whatever its origin.
C11_NoResultBelowMinScore ==
  queryPc = "returned" =>
    \A i \in DOMAIN ResultRows : ResultRows[i].score >= QueryMinScore

\* C12: search() never returns more than maxResults results (the option of
\* the call, or the configured default; counted in halves).
C12_CountWithinMaxResults ==
  queryPc = "returned" => 2 * Len(ResultRows) <= QueryMaxResults

\* C13 as stated: with no provider and no usable keyword index search()
\* returns an empty list and does not throw.
C13_EmptyWhenNothingAvailable ==
  (queryPc = "returned" /\ NothingAvailable)
    => (queryResult.kind = "ok" /\ ResultRows = <<>>)

\* C13 amended: with no provider and no usable keyword index search() does
\* not throw and returns no index result; what it returns are live overlay
\* rows that hold a word of the query, and nothing when the overlay file is
\* missing or cannot be read.
C13_OnlyOverlayWhenNothingAvailable ==
  (queryPc = "returned" /\ NothingAvailable)
    => /\ queryResult.kind = "ok"
       /\ \A i \in DOMAIN ResultRows :
            ResultRows[i].origin = "hmem" /\ LiveOverlayMatch(ResultRows[i].id)
       /\ hmemRows.file # "open" => ResultRows = <<>>

\* C13 witness: a search with neither provider nor keyword index returned
\* an overlay row while the table also holds an obsolete row with the word
C13_Witness ==
  /\ queryPc = "returned"
  /\ NothingAvailable
  /\ queryResult.site = "397"
  /\ ResultRows # <<>>
  /\ \E j \in DOMAIN hmemRows.rows :
       hmemRows.rows[j].obsolete /\ QueryWords[1] \in hmemRows.rows[j].title

\* ---------------------------------------------------------------- C14
\* C14: search() never waits for a sync() it triggered: a search suspended
\* on its lookups can return whatever the state of the passes its triggers
\* started or joined, and no such pass makes it end rejected.
C14_SearchNeverAwaitsSync ==
  \A s \in SearchCalls :
    /\ searchPc[s] = "awaitLookups" => ENABLED SearchFinish(s)
    /\ searchResult[s].kind # "rejected"

\* a search has returned while the pass it triggered is still running
C14_Witness ==
  \E s \in SearchCalls :
    /\ searchPc[s] = "done"
    /\ searchTrig[s].searchFired
    /\ searchResult[s].kind = "resolved"
    /\ searchResult[s].passRunning

\* ---------------------------------------------------------------- C15
\* C15: a failed pass never makes a warmSession() or search() call that
\* triggered or joined it reject: the call resolves, and each .catch
\* handler the call attached has logged the failure.
C15_OpportunisticFailureOnlyLogged ==
  /\ \A s \in SearchCalls : searchResult[s].kind # "rejected"
  /\ \A c \in WarmCalls : warmTrig[c].result # "rejected"
  /\ \A p \in Passes :
       passState[p] = "doneErr" =>
         /\ SessionStartCaught(p) => <<"session-start", p>> \in logWarn
         /\ SearchCaught(p) => <<"search", p>> \in logWarn

\* a pass fired by warmSession() and joined by the search-time trigger has
\* failed, both calls have resolved and both warnings are logged
C15_Witness ==
  \E p \in Passes, c \in WarmCalls, s \in SearchCalls :
    /\ passState[p] = "doneErr"
    /\ warmTrig[c].warmFired /\ warmTrig[c].warmPass = p
    /\ warmTrig[c].result = "resolved"
    /\ searchTrig[s].searchFired /\ searchTrig[s].searchPass = p
    /\ searchPc[s] = "done" /\ searchResult[s].kind = "resolved"
    /\ {<<"session-start", p>>, <<"search", p>>} \subseteq logWarn

\* ---------------------------------------------------------------- C16
\* C16: every explicit sync() caller whose await of a failed pass has
\* returned is rejected, whichever call started the pass.
C16_ExplicitSyncRejects ==
  \A c \in SyncCalls :
    (/\ syncPc[c] \notin {"idle", "waiting"}
     /\ syncPass[c] # 0
     /\ passState[syncPass[c]] = "doneErr") => syncPc[c] = "rejected"

\* an explicit caller coalesced onto a pass that an opportunistic trigger
\* started is rejected when that pass fails
C16_Witness ==
  \E c \in SyncCalls :
    /\ syncPc[c] = "rejected"
    /\ passReason[syncPass[c]] \in {"session-start", "search"}
    /\ passState[syncPass[c]] = "doneErr"

\* ---------------------------------------------------------------- C17
\* no in-flight handle is retained
Idle(m) == syncing[m] = 0

\* C17: a handle held by a manager is never a settled pass, an open manager
\* whose passes have all settled is Idle and its next sync() starts a new
\* pass, and once runSync has settled the handle of the pass is dropped.
C17_IdleAfterSettle ==
  /\ [](\A m \in Managers :
          /\ ~Idle(m) => ~Settled(syncing[m])
          /\ (constructed[m] /\ ~closed[m] /\ \A p \in Passes : passMgr[p] = m => Settled(p))
               => Idle(m) /\ StartsPass(m))
  /\ \A p \in Passes :
       (passState[p] \in {"ok", "err"}) ~> (Settled(p) /\ \A m \in Managers : syncing[m] # p)

\* after a failed pass has settled, a later sync() on the same manager runs
\* a new pass
C17_Witness ==
  \E p, q \in Passes :
    /\ p < q
    /\ passMgr[p] # 0 /\ passMgr[q] = passMgr[p]
    /\ passState[p] = "doneErr"
    /\ passState[q] = "running" /\ syncing[passMgr[q]] = q

\* ---------------------------------------------------------------- C18
\* C18: for every session key (a key that is not blank) the session-start
\* trigger has called sync() at most once, and exactly once when the key
\* is warmed.
C18_WarmedOncePerKey ==
  \A m \in Managers : \A k \in SessionKeys \ {NoSessionKey} :
    /\ warmSyncs[m][k] <= 1
    /\ k \in sessionWarm[m] <=> warmSyncs[m][k] = 1

\* with session-start sync enabled, a warmSession() call found its key
\* warmed and started nothing, after a search had warmed the key
C18_Witness ==
  \E m \in Managers, c \in WarmCalls, s \in SearchCalls :
    /\ syncSettings.onSessionStart
    /\ searchPc[s] # "idle" /\ searchTrig[s].warmFired
    /\ warmPc[c] = "done" /\ warmMgr[c] = m /\ ~warmTrig[c].warmFired
    /\ sessionWarm[m] # {}

\* ---------------------------------------------------------------- C19
\* C19: a search() call has fired the search-time sync exactly when
\* sync-on-search is enabled and the manager was dirty at the call, dirty
\* being file-dirty or session-dirty as status() reports it.
C19_SearchSyncIffDirty ==
  \A s \in SearchCalls :
    searchPc[s] # "idle" =>
      (searchTrig[s].searchFired <=>
         syncSettings.onSearch
           /\ (searchTrig[s].sawDirty \/ searchTrig[s].sawSessionsDirty))

\* after a pass has cleared the flags and a transcript change has set
\* session-dirty alone, a search has fired the search-time sync
C19_Witness ==
  \E s \in SearchCalls :
    /\ searchPc[s] # "idle"
    /\ syncSettings.onSearch
    /\ searchTrig[s].searchFired
    /\ ~searchTrig[s].sawDirty /\ searchTrig[s].sawSessionsDirty

IndexRows == SelectSeq(ResultRows, LAMBDA r : r.origin = "index")

\* the score the vector lookup and the keyword lookup of the call gave a chunk
VectorScoreOf(c) == queryIndex.vector[c]
KeywordScoreOf(c) ==
  IF QueryWords \in DOMAIN queryIndex.keyword THEN queryIndex.keyword[QueryWords][c] ELSE 0

\* the index rows of the result stand in the order of the vector ranking,
\* and in the order of the keyword ranking
InVectorOrder ==
  \A i \in 1..(Len(IndexRows) - 1) :
    VectorScoreOf(IndexRows[i].id) >= VectorScoreOf(IndexRows[i + 1].id)
InKeywordOrder ==
  \A i \in 1..(Len(IndexRows) - 1) :
    KeywordScoreOf(IndexRows[i].id) >= KeywordScoreOf(IndexRows[i + 1].id)

HybridReturn == queryPc = "returned" /\ queryResult.site = "454"

\* C23 as stated: in hybrid mode the results are in vector order when
\* textWeight = 0 and in keyword order when vectorWeight = 0
C23_FusionMonotone ==
  HybridReturn =>
    /\ querySettings.textWeight = 0 => InVectorOrder
    /\ querySettings.vectorWeight = 0 => InKeywordOrder

\* C23 amended: the same with temporal decay off
C23_FusionMonotoneWithoutDecay ==
  (HybridReturn /\ ~querySettings.temporalDecay) =>
    /\ querySettings.textWeight = 0 => InVectorOrder
    /\ querySettings.vectorWeight = 0 => InKeywordOrder

\* with textWeight = 0 and no decay, two chunks are returned in vector
\* order although the keyword lookup ranks them the other way round
C23_Witness ==
  /\ HybridReturn /\ ~querySettings.temporalDecay
  /\ querySettings.textWeight = 0
  /\ Len(IndexRows) = 2
  /\ VectorScoreOf(IndexRows[1].id) > VectorScoreOf(IndexRows[2].id)
  /\ KeywordScoreOf(IndexRows[1].id) < KeywordScoreOf(IndexRows[2].id)

\* ---------------------------------------------------------------- C24
KeywordOnlyReturn == queryPc = "returned" /\ queryResult.site = "426"

\* the candidate count of the call (lines 385-390)
QueryCandidates == Candidates(QueryMaxResults, querySettings.candidateMultiplier)

\* the best score the keyword searches of the call gave a chunk, 0 when
\* none of them returned it
BestTermScore(c) ==
  LET scores == { r.score : r \in
                   { x \in UNION { {rows[i] : i \in DOMAIN rows} :
                       rows \in { SearchKeywordRows(fts, queryIndex, term, QueryCandidates) :
                                    term \in DOMAIN queryIndex.keyword } } : x.id = c } }
  IN IF scores = {} THEN 0 ELSE CHOOSE v \in scores : \A w \in scores : v >= w

\* C24: in keyword-only mode one keyword search is run per extracted term,
\* or one on the whole query when no term is extracted; every chunk id is
\* returned at most once, with its best score across the terms; a chunk a
\* search returned is left out only by the threshold or the cap
C24_KeywordOnlyMerge ==
  KeywordOnlyReturn =>
    /\ DOMAIN queryIndex.keyword =
         IF ExtractKeywords(QueryWords) = <<>> THEN {QueryWords}
         ELSE { <<ExtractKeywords(QueryWords)[i]>> : i \in DOMAIN ExtractKeywords(QueryWords) }
    /\ \A i, j \in DOMAIN IndexRows : IndexRows[i].id = IndexRows[j].id => i = j
    /\ \A i \in DOMAIN IndexRows :
         IndexRows[i].score > 0 /\ IndexRows[i].score = BestTermScore(IndexRows[i].id)
    /\ \A c \in ChunkIds :
         (BestTermScore(c) > 0 /\ BestTermScore(c) >= QueryMinScore)
           => \/ \E i \in DOMAIN IndexRows : IndexRows[i].id = c
              \/ Len(IndexRows) >= QueryMaxResults \div 2

\* two terms were searched; one search returned nothing, the other gave a
\* chunk; and a chunk two searches scored differently has the higher score
C24_Witness ==
  /\ KeywordOnlyReturn
  /\ Cardinality(DOMAIN queryIndex.keyword) = 2
  /\ \E t \in DOMAIN queryIndex.keyword :
       SearchKeywordRows(fts, queryIndex, t, QueryCandidates) = <<>>
  /\ Len(IndexRows) >= 1

C24_WitnessMax ==
  /\ KeywordOnlyReturn
  /\ \E s, t \in DOMAIN queryIndex.keyword, c \in ChunkIds :
       /\ 0 < queryIndex.keyword[s][c]
       /\ queryIndex.keyword[s][c] < queryIndex.keyword[t][c]
       /\ \E i \in DOMAIN IndexRows :
            IndexRows[i].id = c /\ IndexRows[i].score = queryIndex.keyword[t][c]

\* ---------------------------------------------------------------- C25
\* the score of a chunk in a list of rows, 0 when the list lacks it
RowScore(rows, c) ==
  IF \E i \in DOMAIN rows : rows[i].id = c
    THEN rows[CHOOSE i \in DOMAIN rows : rows[i].id = c].score ELSE 0

\* what the keyword search of a call with a provider returned, and what the
\* vector table holds for its query vector
KeywordRowsOfCall ==
  IF HybridEnabled(fts) THEN SearchKeywordRows(fts, queryIndex, QueryWords, QueryCandidates)
  ELSE <<>>
VectorRowsOfTable == LookupRows(queryIndex.vector, QueryCandidates)

\* the index rows of the result are those of a call that used the vector
\* rows v next to its keyword rows: every row has the score that follows
\* from the two lists, and a chunk of either list is absent only by
\* threshold or cap
ResultUses(v) ==
  LET vector == v
      keyword == KeywordRowsOfCall
      rows == IndexRows
      hit == [c \in ChunkIds |-> RowScore(vector, c) > 0 \/ RowScore(keyword, c) > 0]
      score == [c \in ChunkIds |->
                  IF HybridEnabled(fts)
                    THEN Decayed(FusedScore(RowScore(vector, c), RowScore(keyword, c),
                                            querySettings.vectorWeight,
                                            querySettings.textWeight),
                                 c, querySettings.temporalDecay)
                    ELSE RowScore(vector, c)]
  IN /\ \A i \in DOMAIN rows : hit[rows[i].id] /\ rows[i].score = score[rows[i].id]
     /\ \A c \in ChunkIds :
          (hit[c] /\ score[c] >= QueryMinScore)
            => \/ \E i \in DOMAIN rows : rows[i].id = c
               \/ Len(rows) >= QueryMaxResults \div 2

EmbeddedReturn == queryPc = "returned" /\ provider /\ QueryWords # <<>>

C25_WitnessVectorAgain ==
  /\ EmbeddedReturn /\ queryBefore.afterZero /\ ~queryIndex.zeroVec
  /\ \E i \in DOMAIN IndexRows : RowScore(VectorRowsOfTable, IndexRows[i].id) > 0

\* ---------------------------------------------------------------- C26
Ranked(rows) == \A i \in 1..(Len(rows) - 1) : rows[i].score >= rows[i + 1].score

\* C26: the list search() returns is ranked, every result scoring at least
\* as high as the one after it, in every mode
C26_ResultRanked == queryPc = "returned" => Ranked(ResultRows)

\* the rows that come from the index are ranked among themselves
C26_IndexRowsRanked == queryPc = "returned" => Ranked(IndexRows)

\* ---------------------------------------------------------------- C27
\* C27: search() with an empty or whitespace-only query returns the empty
\* list from line 382, before any keyword, vector or overlay lookup
C27_EmptyQueryNoLookup ==
  (queryPc = "returned" /\ queryReq.query.words = <<>>) =>
    /\ queryResult = Answer(<<>>, "382")
    /\ DOMAIN queryIndex.keyword = {}
    /\ ~EmbedsQuery(provider, queryReq.query)

\* a whitespace-only query was answered by a manager with a provider, a
\* keyword index and an overlay file that has live rows
C27_Witness ==
  /\ queryPc = "returned" /\ queryReq.query.words = <<>> /\ queryReq.query.pad
  /\ provider /\ fts = "ready"
  /\ hmemRows.file = "open" /\ \E i \in DOMAIN hmemRows.rows : ~hmemRows.rows[i].obsolete
  /\ ResultRows = <<>>

\* ---------------------------------------------------------------- C28
\* maxResults * candidateMultiplier of the call, in halves
PoolProduct2 == QueryMaxResults * querySettings.candidateMultiplier

\* C28: the pool size is floor(maxResults * candidateMultiplier), raised to
\* 1 and cut at 200, and so lies in 1..200
C28_CandidatesClamped ==
  queryPc = "pooled" =>
    /\ queryPool \in 1..200
    /\ \E floor \in -1610..1610 :
         /\ 2 * floor <= PoolProduct2 /\ PoolProduct2 < 2 * floor + 2
         /\ queryPool = IF floor < 1 THEN 1 ELSE IF floor > 200 THEN 200 ELSE floor

\* a product above 200 was cut to 200, and a fractional one rounded down
C28_Witness == queryPc = "pooled" /\ PoolProduct2 > 401 /\ queryPool = 200
C28_WitnessFloor == queryPc = "pooled" /\ PoolProduct2 = 3 /\ queryPool = 1
C28_WitnessLow == queryPc = "pooled" /\ PoolProduct2 < 0 /\ queryPool = 1

\* ---------------------------------------------------------------- C29
VectorProbeDone == probePc = "done" /\ probeResult.kind = "bool"

C29_WitnessNoProvider == VectorProbeDone /\ ~provider /\ vectorField.enabled

\* ---------------------------------------------------------------- C30
EmbeddingProbeDone == probePc = "done" /\ probeResult.kind \in {"resolved", "rejected"}

\* C30: probeEmbeddingAvailability() does not reject; it resolves to ok
\* when the embedding call succeeded, to not ok with the message of the
\* failure when it failed, and with no provider to not ok with a message
\* and without having called the provider
C30_EmbeddingProbeNeverRejects ==
  EmbeddingProbeDone =>
    /\ probeResult.kind = "resolved"
    /\ IF provider
         THEN /\ probeCalls = {"embedBatchWithRetry"}
              /\ probeResult.ok = ~probeCallEnd.threw
              /\ probeCallEnd.threw => probeResult.error = probeCallEnd.text
         ELSE /\ probeCalls = {}
              /\ ~probeResult.ok
              /\ probeResult.error # ""

\* the embedding call threw a value that is not an Error and the probe
\* resolved with its text
C30_Witness ==
  /\ EmbeddingProbeDone
  /\ probeCallEnd.threw /\ ~probeCallEnd.isError
  /\ probeResult = [kind |-> "resolved", ok |-> FALSE, error |-> "429"]

\* with no provider the probe resolved with the configured reason
C30_WitnessNoProvider ==
  /\ EmbeddingProbeDone /\ ~provider
  /\ probeResult.error = "no API key"

\* ---------------------------------------------------------------- C21
\* the pass of manager m settles in this step, with success
SettlesOk(m) ==
  \E p \in Passes :
    passMgr[p] = m /\ passState[p] = "running" /\ passState'[p] = "ok"

HandedOpen(p) == p # 0 => ~closed[passMgr'[p]]

\* C31: once close() has been called on a manager no pass starts on it any
\* more: no step gives a closed manager a new pass or a new handle, every
\* sync() call (explicit, from warmSession, from search, from a timer) that
\* is handed a promise is handed one of a manager that was open when it
\* called, a call that is handed none resolves at once, and the callers of
\* warmSession and search are not rejected; the store is closed only on a
\* closed manager, so no pass begins after the store was closed.
C31_NoPassAfterClose ==
  [][/\ \A m \in Managers : closed[m] =>
          /\ \A p \in Passes : passMgr'[p] = m => passMgr[p] = m
          /\ syncing'[m] \in {syncing[m], 0}
     /\ \A m \in Managers : db[m] = "closed" => closed[m]
     /\ \A c \in SyncCalls : syncPc[c] = "idle" /\ syncPc'[c] # "idle" =>
          /\ HandedOpen(syncPass'[c])
          /\ syncPass'[c] = 0 => syncPc'[c] = "resolved"
     /\ \A c \in WarmCalls : warmPc[c] = "idle" /\ warmPc'[c] = "done" =>
          /\ HandedOpen(warmTrig'[c].warmPass)
          /\ warmTrig'[c].result = "resolved"
     /\ \A s \in SearchCalls : searchPc[s] = "idle" /\ searchPc'[s] # "idle" =>
          /\ HandedOpen(searchTrig'[s].warmPass)
          /\ HandedOpen(searchTrig'[s].searchPass)
          /\ searchResult'[s].kind # "rejected"
    ]_vars

\* the store of the manager is closed, and after close() an explicit sync()
\* resolved with no pass, or a warmSession() or a search() fired its sync()
\* and no pass came of it
C31_Witness ==
  \E m \in Managers :
    /\ db[m] = "closed"
    /\ \A p \in Passes : passMgr[p] # m
    /\ \/ \E c \in SyncCalls : syncPc[c] = "resolved" /\ syncPass[c] = 0
       \/ \E c \in WarmCalls : warmMgr[c] = m /\ warmTrig[c].warmFired /\ warmTrig[c].warmPass = 0
       \/ \E s \in SearchCalls : searchMgr[s] = m /\ searchTrig[s].searchFired
                                   /\ searchTrig[s].searchPass = 0

\* ---------------------------------------------------------------- C32
\* C32: every manager in the instance cache is open (closed = false), at
\* every moment, also while a close() of it is awaiting the watcher or an
\* in-flight sync; so get() never returns a manager on which close() has
\* been called.
C32_CacheHoldsOnlyOpen ==
  \A k \in Keys : INDEX_CACHE[k] # 0 => ~closed[INDEX_CACHE[k]]

\* ---------------------------------------------------------------- C33
\* C33: close() removes only the registration of the manager it closes: a
\* step that empties the cache entry of a key empties it of a manager on
\* which close() has been called, never of a manager that is still open.
C33_CloseRemovesOwnEntry ==
  [][\A k \in Keys : INDEX_CACHE[k] # 0 /\ INDEX_CACHE'[k] = 0
                       => closed'[INDEX_CACHE[k]]]_vars

\* ---------------------------------------------------------------- C34
\* caller c is handed, in this step, the promise of a pass that was already
\* there
Coalesces(c) ==
  /\ syncPc[c] = "idle" /\ syncPc'[c] = "waiting"
  /\ passState[syncPass'[c]] # "none"

\* C34: the params of a sync() call that is coalesced onto an in-flight
\* pass are ignored. The step of such a call starts no pass and leaves the
\* handle, the params and the scope of the running pass as they are, so a
\* pass started without force is not widened to all sources and does not
\* report to the caller's progress callback; a started pass keeps its
\* params and its scope until it settles; and a pass starts only in the
\* step of the call whose params it gets, so the settling of a pass starts
\* no pass, a forced pass is started by a call with force only, and the
\* callback a pass reports to (runSync, step 6) is that of its starter.
C34_JoinedParamsIgnored ==
  [][/\ \A c \in SyncCalls : Coalesces(c) =>
          /\ passState' = passState
          /\ syncing' = syncing
          /\ passParams' = passParams
          /\ syncScope' = syncScope
          /\ passParams'[syncPass'[c]].progress # c
     /\ \A p \in Passes : passState[p] # "none" =>
          /\ passParams'[p] = passParams[p]
          /\ passState'[p] = "running" =>
               syncScope'[passMgr[p]].read = syncScope[passMgr[p]].read
     /\ \A p \in Passes : passState[p] = "none" /\ passState'[p] # "none" =>
          /\ calls' = calls + 1
          /\ passParams'[p].force =>
               \E c \in SyncCalls : /\ syncPc[c] = "idle" /\ syncPc'[c] = "waiting"
                                    /\ syncPass'[c] = p /\ syncParams'[c].force
          /\ \A c \in SyncCalls : passParams'[p].progress = c =>
               syncPc[c] = "idle" /\ syncPass'[c] = p
    ]_vars

\* a call with force and a progress callback joined a pass that a timer or
\* a call without them had started with only the memory files in scope; the
\* pass has settled with that scope and those params, the caller has
\* resumed, the manager holds no handle and no second pass was started
C34_Witness ==
  \E c \in SyncCalls, p \in Passes :
    /\ syncParams[c] = [force |-> TRUE, progress |-> c]
    /\ syncPass[c] = p /\ syncPc[c] = "resolved"
    /\ passParams[p] = NoParams
    /\ passState[p] = "doneOk"
    /\ syncing[passMgr[p]] = 0
    /\ sessionsDirty[passMgr[p]]
    /\ \A q \in Passes \ {p} : passState[q] = "none"

\* ---------------------------------------------------------------- C35
\* C35: warmSession() records a non-empty key in the step in which it fires
\* the session-start sync, whatever becomes of that sync (a pass that is
\* still running, that fails later, or no pass at all because the manager
\* is closed); a recorded key stays recorded, and no later step fires a
\* session-start sync for it.
C35_WarmedWhateverTheOutcome ==
  [][\A m \in Managers : \A k \in SessionKeys \ {NoSessionKey} :
       /\ warmSyncs'[m][k] > warmSyncs[m][k] => k \in sessionWarm'[m]
       /\ k \in sessionWarm[m] =>
            /\ k \in sessionWarm'[m]
            /\ warmSyncs'[m][k] = warmSyncs[m][k]
    ]_vars

\* the session-start sync fired for key s2 started the one pass there is,
\* the pass failed, the key is warmed, and a call with the warmed key (the
\* blank key fires every time) fired nothing
C35_Witness ==
  \E m \in Managers, p \in Passes :
    /\ warmSyncs[m]["s2"] = 1 /\ "s2" \in sessionWarm[m]
    /\ passMgr[p] = m /\ passReason[p] = "session-start" /\ passState[p] = "doneErr"
    /\ \A q \in Passes \ {p} : passState[q] = "none"
    /\ \/ \E c \in WarmCalls : warmPc[c] = "done" /\ ~warmTrig[c].warmFired
       \/ \E s \in SearchCalls : searchPc[s] = "done" /\ ~searchTrig[s].warmFired

\* the session-start sync fired for key s2 was skipped, the manager being
\* closed: it was called once, no pass was ever started, the key is warmed
C35_WitnessClosed ==
  \E m \in Managers :
    /\ closed[m]
    /\ warmSyncs[m]["s2"] = 1 /\ "s2" \in sessionWarm[m]
    /\ \A p \in Passes : passState[p] = "none"

\* ---------------------------------------------------------------- C36
\* the regular results of the call: what search() hands to mergeWithHmem,
\* which is what it returns when there is no overlay file
RegularRows ==
  SearchOutcome(provider, fts, querySettings, [file |-> "absent", rows |-> <<>>],
                queryReq, queryIndex).rows

\* the overlay rows that match the query of the call
OverlayMatches ==
  SearchHmem(hmemRows, QueryWords, Max(6, QueryMaxResults - 2 * Len(RegularRows)))

\* C36: overlay results are supplementary. The regular results of a call
\* are returned as a prefix, unchanged and in their order; what follows
\* them are overlay rows, each appended while fewer than maxResults
\* entries were present; and when the regular results fill maxResults no
\* overlay row is appended. (maxResults is counted in halves.)
C36_OverlaySupplementary ==
  queryPc = "returned" =>
    LET regular == RegularRows
        n == Len(regular)
    IN /\ Len(ResultRows) >= n
       /\ SubSeq(ResultRows, 1, n) = regular
       /\ \A i \in (n + 1)..Len(ResultRows) :
            /\ ResultRows[i].origin = "hmem"
            /\ 2 * (i - 1) < QueryMaxResults
       /\ 2 * n >= QueryMaxResults => ResultRows = regular

\* a call returned its regular result followed by an overlay row
C36_Witness ==
  /\ queryPc = "returned"
  /\ RegularRows # <<>>
  /\ Len(ResultRows) > Len(RegularRows)
  /\ ResultRows[Len(ResultRows)].origin = "hmem"

\* a call whose regular results fill maxResults returned them alone although
\* overlay rows matched its query
C36_WitnessFull ==
  /\ queryPc = "returned"
  /\ RegularRows # <<>>
  /\ 2 * Len(RegularRows) >= QueryMaxResults
  /\ OverlayMatches # <<>>
  /\ ResultRows = RegularRows

\* ---------------------------------------------------------------- C37
\* the trimmed relPath of the call has the shape of an overlay node id
NodeIdShaped ==
  ~readReq.abs /\ Len(readReq.segs) = 1 /\ readReq.segs[1] \in NodeIdSegments

\* what the path-safety and file-type checks and the read make of the call:
\* its outcome on a manager that has no overlay store
RegularOutcome ==
  ReadFileOutcome(workspaceDir, extraPaths, "absent", readReq, readFileState)

\* C37: readFile returns from the overlay store, without the path-safety
\* and file-type checks, exactly when the relPath has the shape of a node
\* id and the store holds the node. A node-id relPath that is not found, or
\* a manager without an overlay store, gets the regular checks and is
\* rejected by them without the target being touched; every other relPath
\* ends as it would with no overlay store at all.
C37_OnlyFoundNodeIdsSkipChecks ==
  readPc = "returned" =>
    /\ readSite = "592" <=> (NodeIdShaped /\ hmemStore = "hasNode")
    /\ readSite = "592" => readResult.kind = "ok"
    /\ readSite # "592" =>
         /\ readResult = RegularOutcome.result
         /\ readSite = RegularOutcome.site
    /\ (NodeIdShaped /\ hmemStore # "hasNode") =>
         /\ readResult.kind = "error"
         /\ readSite \in {"630", "633"}
         /\ ~TouchedTarget

\* a node id found in the overlay store was returned although its path is
\* not a memory path and does not end in .md
C37_Witness ==
  /\ readPc = "returned"
  /\ NodeIdShaped /\ hmemStore = "hasNode"
  /\ readResult.kind = "ok" /\ readSite = "592"
  /\ ~EndsWithMd(ReadAbsPath)
  /\ RegularOutcome.result.kind = "error"

\* a node id that the overlay store does not hold lay below an extra
\* directory, passed the permission check and was rejected for its
\* extension
C37_WitnessNotFound ==
  /\ readPc = "returned"
  /\ NodeIdShaped /\ hmemStore = "empty"
  /\ readSite = "633" /\ readResult.kind = "error"

\* a padded node id is trimmed before the test and found
C37_WitnessPadded ==
  /\ readPc = "returned"
  /\ readReq.pad /\ NodeIdShaped
  /\ readSite = "592"

====
